---- MODULE Spec2Model ----
(***************************************************************************)
(* Rules engine of the card game: zones, atonement and elimination, win    *)
(* checks, the turn-phase controller and the Hunt, Tithe and King's        *)
(* Command resolutions, with the view's legal-action computation.          *)
(*                                                                         *)
(* Representation.  A card id "stag-7" is the record [t |-> "stag",        *)
(* v |-> 7]; parseCardType and parseCardValue read its two parts.  The     *)
(* deck is a sequence whose top is its last element (the code pops).       *)
(* Hands, territories, discard, burned and kingdom are arrays whose order  *)
(* no code of the engine reads (only push, indexOf/splice, includes,       *)
(* filter, length), so they are bags.  A player id is "p<seat>".  null is  *)
(* the string "null" for winner/winReason and the record [type |->         *)
(* "none"] for pendingAction.  Every engine function is an operator from   *)
(* a GameState record to a GameState record (or to a record holding the    *)
(* returned value and the state).  The log is its length (entries are only *)
(* appended and never read).  A state record also carries rnd, the draw    *)
(* that Math.random gives the shuffles of one call, and ev, the list of    *)
(* atonements, eliminations, win declarations and turnPhase assignments    *)
(* the call has made; the variable last keeps the action just handled, its *)
(* result and that list.                                                   *)
(***************************************************************************)
EXTENDS Integers, Sequences, FiniteSets, Bags, TLC

VARIABLES deck, discard, burned, kingdom, players, playerOrder,
          currentPlayerIndex, turnPhase, pendingAction, log, winner,
          winReason, last, pc

vars == <<deck, discard, burned, kingdom, players, playerOrder,
          currentPlayerIndex, turnPhase, pendingAction, log, winner,
          winReason, last, pc>>

(***************************************************************************)
(* Card model                                                              *)
(***************************************************************************)
Card(t, v) == [t |-> t, v |-> v]

CardsOf(t, n) == {Card(t, v) : v \in 1..n}

ALL_CARDS == CardsOf("stag", 12) \cup CardsOf("hunt", 12) \cup CardsOf("healing", 12)
             \cup CardsOf("magi", 6) \cup CardsOf("tithe", 6) \cup CardsOf("kingscommand", 3)

parseCardType(id) == id.t

parseCardValue(id) == id.v

NoCard == [t |-> "null", v |-> 0]

stagDiscardCost(stagValue) ==
    IF stagValue <= 3 THEN 1
    ELSE IF stagValue <= 6 THEN 2
    ELSE IF stagValue <= 9 THEN 4
    ELSE 6

(* A table whose middle tier charges what the low tier does. *)
stagAtonementCostLowTier(stagValue) ==
    IF stagValue <= 4 THEN 1
    ELSE IF stagValue <= 8 THEN 1
    ELSE 3

stagAtonementCost(stagValue) ==
    IF stagValue <= 4 THEN 1
    ELSE IF stagValue <= 8 THEN 2
    ELSE 3

(***************************************************************************)
(* Bags, sequences and the shuffle                                         *)
(***************************************************************************)
One(c) == SetToBag({c})

Has(b, c) == BagIn(c, b)

RECURSIVE SeqToBag(_)
SeqToBag(q) == IF q = <<>> THEN EmptyBag ELSE One(Head(q)) (+) SeqToBag(Tail(q))

SeqToSet(q) == {q[i] : i \in 1..Len(q)}

Pop(q) == SubSeq(q, 1, Len(q) - 1)

Top(q) == q[Len(q)]

SelectBag(b, t) == {c \in BagToSet(b) : parseCardType(c) = t}

RECURSIVE SumCopies(_, _)
SumCopies(b, S) ==
    IF S = {} THEN 0
    ELSE LET c == CHOOSE x \in S : TRUE IN CopiesIn(c, b) + SumCopies(b, S \ {c})

CountType(b, t) == SumCopies(b, SelectBag(b, t))

TypeIndex(t) ==
    CASE t = "stag" -> 1 [] t = "hunt" -> 2 [] t = "healing" -> 3
      [] t = "magi" -> 4 [] t = "tithe" -> 5 [] t = "kingscommand" -> 6
      [] OTHER -> 0

Rank(c) == TypeIndex(c.t) * 100 + c.v

Nth(S, j) == CHOOSE c \in S : Cardinality({d \in S : Rank(d) < Rank(c)}) = j

(* Fisher-Yates with Math.random: any permutation.  The draw s.rnd of the *)
(* call picks the permutation (mixed radix over the remaining cards).      *)
RECURSIVE shuffle(_, _)
TakeFirst(b, k, c) == <<c>> \o shuffle(b (-) One(c), k \div Cardinality(BagToSet(b)))

shuffle(b, k) ==
    IF b = EmptyBag THEN <<>>
    ELSE TakeFirst(b, k, Nth(BagToSet(b), k % Cardinality(BagToSet(b))))

(***************************************************************************)
(* Engine: log, deck helpers, zone moves.  A function that uses a result   *)
(* more than once hands it to a second operator as an argument.            *)
(***************************************************************************)
Log(s) == [s EXCEPT !.log = @ + 1]

Ev(s, e) == [s EXCEPT !.ev = Append(@, e)]

(* state.turnPhase = ph, noted with the phase and the index it leaves. *)
Phase(s, ph) ==
    Ev([s EXCEPT !.turnPhase = ph],
       [k |-> "phase", seat |-> s.currentPlayerIndex, card |-> NoCard,
        from |-> s.turnPhase, to |-> ph])

DeckLeft(s) == [ok |-> Len(s.deck) > 0, st |-> s]

(* A reshuffle that burns nothing. *)
BurnAfterReshuffleSkipped(s) == [ok |-> Len(s.deck) > 0, st |-> s]

BurnAfterReshuffle(s) ==
    DeckLeft(IF Len(s.deck) > 0
             THEN Log([s EXCEPT !.burned = @ (+) One(Top(s.deck)), !.deck = Pop(@)])
             ELSE s)

ensureDeck(s) ==
    IF Len(s.deck) > 0 THEN [ok |-> TRUE, st |-> s]
    ELSE IF s.discard = EmptyBag THEN [ok |-> FALSE, st |-> s]
    ELSE BurnAfterReshuffle(Log([s EXCEPT !.deck = shuffle(s.discard, s.rnd),
                                          !.discard = EmptyBag]))

PopToHand(e) ==
    IF ~e.ok THEN [card |-> NoCard, st |-> e.st]
    ELSE [card |-> Top(e.st.deck), st |-> [e.st EXCEPT !.deck = Pop(@)]]

drawCard(s) == PopToHand(ensureDeck(s))

PopToBurned(e) ==
    IF ~e.ok THEN [ok |-> FALSE, st |-> e.st]
    ELSE [ok |-> TRUE,
          st |-> [e.st EXCEPT !.burned = @ (+) One(Top(e.st.deck)), !.deck = Pop(@)]]

burnCard(s) == PopToBurned(ensureDeck(s))

PopToKingdom(e) ==
    IF ~e.ok THEN [ok |-> FALSE, st |-> e.st]
    ELSE [ok |-> TRUE,
          st |-> [e.st EXCEPT !.kingdom = @ (+) One(Top(e.st.deck)), !.deck = Pop(@)]]

dealToKingdom(s) == PopToKingdom(ensureDeck(s))

discardKingdom(s) ==
    IF BagCardinality(s.kingdom) > 0
    THEN [s EXCEPT !.discard = @ (+) s.kingdom, !.kingdom = EmptyBag]
    ELSE s

discardFromHand(s, seat, cardId) ==
    IF ~Has(s.players[seat].hand, cardId) THEN s
    ELSE [s EXCEPT !.players[seat].hand = @ (-) One(cardId),
                   !.discard = @ (+) One(cardId)]

playToTerritory(s, seat, cardId) ==
    IF ~Has(s.players[seat].hand, cardId) THEN s
    ELSE [s EXCEPT !.players[seat].hand = @ (-) One(cardId),
                   !.players[seat].territory = @ (+) One(cardId)]

(***************************************************************************)
(* Players and the view's territory helpers                                *)
(***************************************************************************)
Seats == 0..2

PlayerId(seat) == <<"p0", "p1", "p2", "p3">>[seat + 1]

getPlayerBySeat(s, seat) == s.players[seat]

IndexOf(q, x) ==
    IF \E i \in 1..Len(q) : q[i] = x
    THEN (CHOOSE i \in 1..Len(q) : q[i] = x /\ \A j \in 1..(i - 1) : q[j] # x) - 1
    ELSE -1

getCurrentPlayer(s) == s.playerOrder[s.currentPlayerIndex + 1]

RECURSIVE OpponentsFrom(_, _, _)
OpponentsFrom(s, myIdx, i) ==
    IF i >= Len(s.playerOrder) THEN <<>>
    ELSE (IF ~s.players[s.playerOrder[((myIdx + i) % Len(s.playerOrder)) + 1]].eliminated
          THEN <<s.playerOrder[((myIdx + i) % Len(s.playerOrder)) + 1]>>
          ELSE <<>>)
         \o OpponentsFrom(s, myIdx, i + 1)

OpponentsAfter(s, myIdx) == IF myIdx = -1 THEN <<>> ELSE OpponentsFrom(s, myIdx, 1)

(* The living opponents in playerOrder order, not starting after mySeat. *)
getOpponentSeatsUnrotated(s, mySeat) ==
    SelectSeq(s.playerOrder, LAMBDA q : q # mySeat /\ ~s.players[q].eliminated)

getOpponentSeatsInOrder(s, mySeat) == OpponentsAfter(s, IndexOf(s.playerOrder, mySeat))

NonHealingMagi(player) ==
    {c \in SelectBag(player.territory, "magi") : ~Has(player.territoryMagiAsHealing, c)}

(* getHandLimit without the territoryMagiAsHealing test. *)
getHandLimitEveryMagi(player) == 5 + CountType(player.territory, "magi")

getHandLimit(player) == 5 + SumCopies(player.territory, NonHealingMagi(player))

getTerritoryHealingValue(player) ==
    CountType(player.territory, "healing") + 3 * BagCardinality(player.territoryMagiAsHealing)

countTerritoryType(player, t) == CountType(player.territory, t)

getCrownScore(player) ==
    CountType(player.territory, "stag") + 3 * CountType(player.territory, "tithe")
    + player.contributionsMade + player.ante + CountType(player.territory, "kingscommand")

(* The cost the view's playStag availability check computes inline. *)
PlayStagCost(val) ==
    IF val <= 3 THEN 1 ELSE IF val <= 6 THEN 2 ELSE IF val <= 9 THEN 4 ELSE 8

(***************************************************************************)
(* Win checks, elimination, atonement                                      *)
(***************************************************************************)
Alive(s) == {p \in Seats : ~s.players[p].eliminated}

DeclareLastStanding(s, a) ==
    Log(Ev([s EXCEPT !.winner = PlayerId(a), !.winReason = "lastStanding"],
           [k |-> "lastStanding", seat |-> a, card |-> NoCard]))

checkLastStanding(s) ==
    IF s.winner # "null" THEN s
    ELSE IF Cardinality(Alive(s)) = 1
    THEN DeclareLastStanding(s, CHOOSE p \in Alive(s) : TRUE)
    ELSE s

(* An elimination that takes the first seat out of the turn order. *)
eliminatePlayerDropHead(s, seat) ==
    checkLastStanding(
        Ev([s EXCEPT !.players[seat].eliminated = TRUE,
                     !.playerOrder = Tail(@),
                     !.discard = @ (+) s.players[seat].hand,
                     !.players[seat].hand = EmptyBag],
           [k |-> "eliminated", seat |-> seat, card |-> NoCard]))

(* An elimination that leaves the seat in the turn order. *)
eliminatePlayerKeepOrder(s, seat) ==
    checkLastStanding(
        Ev([s EXCEPT !.players[seat].eliminated = TRUE,
                     !.discard = @ (+) s.players[seat].hand,
                     !.players[seat].hand = EmptyBag],
           [k |-> "eliminated", seat |-> seat, card |-> NoCard]))

eliminatePlayer(s, seat) ==
    checkLastStanding(
        Ev([s EXCEPT !.players[seat].eliminated = TRUE,
                     !.playerOrder = SelectSeq(@, LAMBDA x : x # seat),
                     !.discard = @ (+) s.players[seat].hand,
                     !.players[seat].hand = EmptyBag],
           [k |-> "eliminated", seat |-> seat, card |-> NoCard]))

(* A payment that is taken from the remaining tokens and counted nowhere. *)
PayAtonementUncounted(s, seat, stagCardId, cost) ==
    IF s.players[seat].contributionsRemaining >= cost
    THEN Log(Ev([s EXCEPT !.players[seat].contributionsRemaining = @ - cost],
                [k |-> "atoned", seat |-> seat, card |-> stagCardId, cost |-> cost]))
    ELSE eliminatePlayer(Log(s), seat)

PayAtonement(s, seat, stagCardId, cost) ==
    IF s.players[seat].contributionsRemaining >= cost
    THEN Log(Ev([s EXCEPT !.players[seat].contributionsRemaining = @ - cost,
                          !.players[seat].contributionsMade = @ + cost],
                [k |-> "atoned", seat |-> seat, card |-> stagCardId, cost |-> cost]))
    ELSE eliminatePlayer(Log(s), seat)

(* Healing that only equals the Stag value does not cover it. *)
applyAtonementStrict(s, seat, stagCardId) ==
    IF getTerritoryHealingValue(s.players[seat]) > parseCardValue(stagCardId)
    THEN Log(Ev(s, [k |-> "covered", seat |-> seat, card |-> stagCardId]))
    ELSE PayAtonement(s, seat, stagCardId, stagAtonementCost(parseCardValue(stagCardId)))

applyAtonement(s, seat, stagCardId) ==
    IF getTerritoryHealingValue(s.players[seat]) >= parseCardValue(stagCardId)
    THEN Log(Ev(s, [k |-> "covered", seat |-> seat, card |-> stagCardId]))
    ELSE PayAtonement(s, seat, stagCardId, stagAtonementCost(parseCardValue(stagCardId)))

AtoneIfStag(s, seat, cardId) ==
    IF parseCardType(cardId) = "stag" THEN applyAtonement(s, seat, cardId) ELSE s

discardFromHandWithAtonement(s, seat, cardId) ==
    AtoneIfStag(discardFromHand(s, seat, cardId), seat, cardId)

(***************************************************************************)
(* Deck exhaustion scoring                                                 *)
(***************************************************************************)
ScoreEntry(p, pl) ==
    [player |-> p,
     score |-> CountType(pl.territory, "stag") + (3 * CountType(pl.territory, "tithe"))
               + pl.contributionsMade + pl.ante + CountType(pl.territory, "kingscommand"),
     tiebreak |-> <<CountType(pl.territory, "magi"), CountType(pl.territory, "healing"),
                    CountType(pl.territory, "hunt"), CountType(pl.territory, "kingscommand")>>]

FirstDifference(a, b) ==
    CHOOSE j \in 1..4 : a.tiebreak[j] # b.tiebreak[j]
                        /\ \A h \in 1..(j - 1) : a.tiebreak[h] = b.tiebreak[h]

(* The comparator of scores.sort: negative when a sorts before b. *)
ScoreCmp(a, b) ==
    IF a.score # b.score THEN b.score - a.score
    ELSE IF \E i \in 1..4 : a.tiebreak[i] # b.tiebreak[i]
    THEN b.tiebreak[FirstDifference(a, b)] - a.tiebreak[FirstDifference(a, b)]
    ELSE 0

(* Array.prototype.sort is stable: x goes after every entry it does not beat. *)
RECURSIVE InsertScore(_, _)
InsertScore(q, x) ==
    IF q = <<>> THEN <<x>>
    ELSE IF ScoreCmp(x, Head(q)) < 0 THEN <<x>> \o q
    ELSE <<Head(q)>> \o InsertScore(Tail(q), x)

RECURSIVE SortScores(_, _)
SortScores(done, todo) ==
    IF todo = <<>> THEN done ELSE SortScores(InsertScore(done, Head(todo)), Tail(todo))

(* Scoring that does not skip eliminated players. *)
RECURSIVE ScoresFromEveryone(_, _)
ScoresFromEveryone(s, p) ==
    IF p \notin Seats THEN <<>>
    ELSE <<ScoreEntry(p, s.players[p])>> \o ScoresFromEveryone(s, p + 1)

RECURSIVE ScoresFrom(_, _)
ScoresFrom(s, p) ==
    IF p \notin Seats THEN <<>>
    ELSE (IF s.players[p].eliminated THEN <<>> ELSE <<ScoreEntry(p, s.players[p])>>)
         \o ScoresFrom(s, p + 1)

DeclareDeckOut(s, scores) ==
    IF Len(scores) > 0
    THEN Log(Ev([s EXCEPT !.log = @ + Len(scores),
                          !.winner = PlayerId(scores[1].player),
                          !.winReason = "deckOut"],
                [k |-> "deckOut", seat |-> scores[1].player, card |-> NoCard]))
    ELSE s

triggerDeckExhaustion(s) == DeclareDeckOut(Log(s), SortScores(<<>>, ScoresFrom(s, 0)))

(***************************************************************************)
(* Turn phase controller                                                   *)
(***************************************************************************)
(* A loop of n burns or deals: r is the result of the step before; a step *)
(* that fails triggers deck exhaustion and ends the loop.                  *)
RECURSIVE DealLoop(_, _)
DealLoop(r, n) ==
    IF ~r.ok THEN [ok |-> FALSE, st |-> triggerDeckExhaustion(r.st)]
    ELSE IF n = 0 THEN r
    ELSE DealLoop(dealToKingdom(r.st), n - 1)

(* A refresh that leaves every kingdom as it is. *)
refreshKingdomNever(s) == [ok |-> TRUE, st |-> s]

(* A refresh that deals without burning first. *)
refreshKingdomNoBurn(s) ==
    IF BagCardinality(s.kingdom) >= 3 THEN [ok |-> TRUE, st |-> s]
    ELSE DealLoop([ok |-> TRUE, st |-> discardKingdom(s)], 3)

refreshKingdom(s) ==
    IF BagCardinality(s.kingdom) >= 3 THEN [ok |-> TRUE, st |-> s]
    ELSE DealLoop(burnCard(discardKingdom(s)), 3)

NoPending == [type |-> "none"]

(* A turn that starts in the kingdom action without a refresh. *)
advanceTurnSkipRefresh(s) ==
    Log([Phase([s EXCEPT !.currentPlayerIndex = (@ + 1) % Len(s.playerOrder)],
               "kingdomAction")
         EXCEPT !.pendingAction = NoPending])

advanceTurn(s) ==
    Log([Phase([s EXCEPT !.currentPlayerIndex = (@ + 1) % Len(s.playerOrder)],
               "refreshKingdom")
         EXCEPT !.pendingAction = NoPending])

FixIndex(s) ==
    IF s.currentPlayerIndex >= Len(s.playerOrder)
    THEN [s EXCEPT !.currentPlayerIndex = @ % Len(s.playerOrder)]
    ELSE s

(* A refresh after which the phase is left at refreshKingdom. *)
KingdomRefreshedKeepPhase(r) == r.st

KingdomRefreshed(r) ==
    IF ~r.ok THEN r.st ELSE Phase(r.st, "kingdomAction")

(* A forced discard that asks for the whole hand. *)
RaiseHandLimitDiscardWholeHand(s, seat, player) ==
    [s EXCEPT !.pendingAction =
        [type |-> "discardToHandLimit", playerSeat |-> seat,
         mustDiscard |-> BagCardinality(player.hand)]]

RaiseHandLimitDiscard(s, seat, player) ==
    [s EXCEPT !.pendingAction =
        [type |-> "discardToHandLimit", playerSeat |-> seat,
         mustDiscard |-> BagCardinality(player.hand) - getHandLimit(player)]]

RECURSIVE autoAdvance(_), AdvancePhase(_, _, _)
autoAdvance(s) ==
    IF s.winner # "null" THEN s
    ELSE IF s.pendingAction # NoPending THEN s
    ELSE IF Len(s.playerOrder) = 0 THEN s
    ELSE AdvancePhase(FixIndex(s), getCurrentPlayer(FixIndex(s)),
                      s.players[getCurrentPlayer(FixIndex(s))])

AdvancePhase(s, seat, player) ==
    IF player.eliminated THEN autoAdvance(advanceTurn(s))
    ELSE CASE s.turnPhase = "refreshKingdom" -> KingdomRefreshed(refreshKingdom(s))
           [] s.turnPhase = "kingdomAction" -> s
           [] s.turnPhase = "territoryAction" -> s
           [] s.turnPhase = "endOfTurn" ->
                IF BagCardinality(player.hand) > getHandLimit(player)
                THEN RaiseHandLimitDiscard(s, seat, player)
                ELSE autoAdvance(advanceTurn(s))
           [] OTHER -> s

(***************************************************************************)
(* Handlers return the error string (or "null") with the state they leave. *)
(***************************************************************************)
(* A rejection that has already written to the log. *)
RejectLogged(s, msg) == [err |-> msg, st |-> Log(s)]

Reject(s, msg) == [err |-> msg, st |-> s]

Accept(s) == [err |-> "null", st |-> s]

Max(a, b) == IF a >= b THEN a ELSE b

Min(a, b) == IF a <= b THEN a ELSE b

IsDistinct(q) == Cardinality(SeqToSet(q)) = Len(q)

(***************************************************************************)
(* drawCard action                                                         *)
(***************************************************************************)
DrawCardDealt(k) ==
    IF ~k.ok THEN Accept(triggerDeckExhaustion(k.st))
    ELSE Accept(Phase(k.st, "territoryAction"))

DrawCardDrawn(d, seat) ==
    IF d.card = NoCard THEN Accept(triggerDeckExhaustion(d.st))
    ELSE DrawCardDealt(dealToKingdom(
             Log([d.st EXCEPT !.players[seat].hand = @ (+) One(d.card)])))

(* handleDrawCard without the phase test. *)
handleDrawCardAnyPhase(s, seat) == DrawCardDrawn(drawCard(s), seat)

handleDrawCard(s, seat) ==
    IF s.turnPhase # "kingdomAction" THEN Reject(s, "Not in kingdom action phase")
    ELSE DrawCardDrawn(drawCard(s), seat)

(***************************************************************************)
(* Hunt                                                                    *)
(***************************************************************************)
RECURSIVE HuntDraws(_, _, _), HuntDrawn(_, _, _)
HuntDraws(s, huntSeat, n) ==
    IF n = 0 THEN [ok |-> TRUE, st |-> s]
    ELSE HuntDrawn(drawCard(s), huntSeat, n)

HuntDrawn(d, huntSeat, n) ==
    IF d.card = NoCard THEN [ok |-> FALSE, st |-> triggerDeckExhaustion(d.st)]
    ELSE HuntDraws([d.st EXCEPT !.players[huntSeat].hand = @ (+) One(d.card)],
                   huntSeat, n - 1)

HuntPlaced(r, huntSeat, huntCardId) ==
    IF ~r.ok THEN r.st
    ELSE Phase([Log(r.st) EXCEPT !.players[huntSeat].territory = @ (+) One(huntCardId),
                                 !.pendingAction = NoPending],
               "endOfTurn")

finishHuntFullDraw(s, huntSeat, huntCardId, drawsBase, averters) ==
    HuntPlaced(HuntDraws(s, huntSeat, drawsBase), huntSeat, huntCardId)

finishHunt(s, huntSeat, huntCardId, drawsBase, averters) ==
    HuntPlaced(HuntDraws(s, huntSeat, Max(0, drawsBase - averters)), huntSeat, huntCardId)

RECURSIVE BurnLoop(_, _)
BurnLoop(r, n) ==
    IF ~r.ok THEN [ok |-> FALSE, st |-> triggerDeckExhaustion(r.st)]
    ELSE IF n = 0 THEN r
    ELSE BurnLoop(burnCard(r.st), n - 1)

HuntOpened(s, seat, cardId, huntTotalValue, kcCount, opponentSeats) ==
    IF Len(opponentSeats) = 0
    THEN Accept(finishHunt(s, seat, cardId, 2 + kcCount, 0))
    ELSE Accept([s EXCEPT !.pendingAction =
            [type |-> "huntResponse",
             huntPlayerSeat |-> seat,
             huntCardId |-> cardId,
             huntTotalValue |-> huntTotalValue,
             respondingSeat |-> Head(opponentSeats),
             remainingResponderSeats |-> Tail(opponentSeats),
             discardsPerPlayer |-> 2 + kcCount,
             drawsForHunter |-> 2 + kcCount,
             averters |-> 0,
             nonAverterSeats |-> <<>>]])

HuntBurnedCardValueOnly(b, seat, cardId) ==
    IF ~b.ok THEN Accept(b.st)
    ELSE HuntOpened([Log(b.st) EXCEPT !.players[seat].hand = @ (-) One(cardId)],
                    seat, cardId,
                    parseCardValue(cardId),
                    countTerritoryType(b.st.players[seat], "kingscommand"),
                    getOpponentSeatsInOrder(b.st, seat))

HuntBurned(b, seat, cardId) ==
    IF ~b.ok THEN Accept(b.st)
    ELSE HuntOpened([Log(b.st) EXCEPT !.players[seat].hand = @ (-) One(cardId)],
                    seat, cardId,
                    parseCardValue(cardId) + countTerritoryType(b.st.players[seat], "hunt"),
                    countTerritoryType(b.st.players[seat], "kingscommand"),
                    getOpponentSeatsInOrder(b.st, seat))

handlePlayHunt(s, seat, cardId) ==
    IF s.turnPhase # "territoryAction" THEN Reject(s, "Not in territory action phase")
    ELSE IF parseCardType(cardId) # "hunt" THEN Reject(s, "Not a Hunt card")
    ELSE IF ~Has(s.players[seat].hand, cardId) THEN Reject(s, "Card not in your hand")
    ELSE HuntBurned(BurnLoop(burnCard(s), 2), seat, cardId)

startDiscardPhaseOrFinish(s, pending, averters, nonAverterSeats) ==
    IF Len(nonAverterSeats) > 0
    THEN [s EXCEPT !.pendingAction =
             [type |-> "huntDiscard",
              huntPlayerSeat |-> pending.huntPlayerSeat,
              huntCardId |-> pending.huntCardId,
              currentDiscardSeat |-> Head(nonAverterSeats),
              remainingDiscardSeats |-> Tail(nonAverterSeats),
              discardsPerPlayer |-> pending.discardsPerPlayer,
              drawsForHunter |-> pending.drawsForHunter,
              averters |-> averters]]
    ELSE finishHunt(s, pending.huntPlayerSeat, pending.huntCardId,
                    pending.drawsForHunter, averters)

HealingTotalCardOnly(player, healingId, magiId) ==
    parseCardValue(healingId) + (IF magiId # NoCard THEN 6 ELSE 0)

HealingTotal(player, healingId, magiId) ==
    parseCardValue(healingId) + countTerritoryType(player, "healing")
    + BagCardinality(player.territoryMagiAsHealing)
    + (IF magiId # NoCard THEN 6 ELSE 0)

Reveal(s, seat, healingId, magiId) ==
    IF healingId = NoCard THEN s
    ELSE IF magiId = NoCard
    THEN [s EXCEPT !.players[seat].hand = @ (-) One(healingId),
                   !.players[seat].territory = @ (+) One(healingId)]
    ELSE [s EXCEPT !.players[seat].hand = (@ (-) One(healingId)) (-) One(magiId),
                   !.players[seat].territory = (@ (+) One(healingId)) (+) One(magiId),
                   !.players[seat].territoryMagiAsHealing = @ (+) One(magiId)]

HuntResponded(s, seat, pending, averted) ==
    IF Len(pending.remainingResponderSeats) > 0
    THEN Accept([s EXCEPT !.pendingAction =
            [pending EXCEPT
                !.respondingSeat = Head(pending.remainingResponderSeats),
                !.remainingResponderSeats = Tail(pending.remainingResponderSeats),
                !.averters = IF averted THEN @ + 1 ELSE @,
                !.nonAverterSeats = IF averted THEN @ ELSE Append(@, seat)]])
    ELSE Accept(startDiscardPhaseOrFinish(s, pending,
            IF averted THEN pending.averters + 1 ELSE pending.averters,
            IF averted THEN pending.nonAverterSeats
            ELSE Append(pending.nonAverterSeats, seat)))

handleHuntResponse(s, seat, healingId, magiId) ==
    IF s.pendingAction.type # "huntResponse" THEN Reject(s, "No pending hunt response")
    ELSE IF s.pendingAction.respondingSeat # seat THEN Reject(s, "Not your turn to respond")
    ELSE IF healingId # NoCard /\ parseCardType(healingId) # "healing"
    THEN Reject(s, "Not a Healing card")
    ELSE IF healingId # NoCard /\ ~Has(s.players[seat].hand, healingId)
    THEN Reject(s, "Healing card not in your hand")
    ELSE IF healingId # NoCard /\ magiId # NoCard /\ parseCardType(magiId) # "magi"
    THEN Reject(s, "Not a Magi card")
    ELSE IF healingId # NoCard /\ magiId # NoCard /\ ~Has(s.players[seat].hand, magiId)
    THEN Reject(s, "Magi card not in your hand")
    ELSE HuntResponded(Reveal(Log(s), seat, healingId, magiId), seat, s.pendingAction,
            healingId # NoCard
            /\ HealingTotal(s.players[seat], healingId, magiId)
               >= s.pendingAction.huntTotalValue)

RECURSIVE DiscardLoop(_, _, _), DiscardNext(_, _, _)
DiscardLoop(s, seat, cardIds) ==
    IF cardIds = <<>> THEN s
    ELSE DiscardNext(discardFromHandWithAtonement(s, seat, Head(cardIds)), seat, cardIds)

DiscardNext(s, seat, cardIds) ==
    IF s.players[seat].eliminated THEN s ELSE DiscardLoop(s, seat, Tail(cardIds))

finishHuntAfterDiscards(s, pending) ==
    finishHunt(s, pending.huntPlayerSeat, pending.huntCardId,
               pending.drawsForHunter, pending.averters)

HuntDiscarded(s, pending) ==
    IF Len(pending.remainingDiscardSeats) > 0
    THEN Accept([s EXCEPT !.pendingAction =
            [pending EXCEPT !.currentDiscardSeat = Head(pending.remainingDiscardSeats),
                            !.remainingDiscardSeats = Tail(pending.remainingDiscardSeats)]])
    ELSE Accept(finishHuntAfterDiscards(s, pending))

handleHuntDiscard(s, seat, cardIds) ==
    IF s.pendingAction.type # "huntDiscard" THEN Reject(s, "No pending hunt discard")
    ELSE IF s.pendingAction.currentDiscardSeat # seat
    THEN Reject(s, "Not your turn to discard")
    ELSE IF Len(cardIds) # Min(s.pendingAction.discardsPerPlayer,
                               BagCardinality(s.players[seat].hand))
    THEN Reject(s, "Must discard exactly mustDiscard card(s)")
    ELSE IF ~IsDistinct(cardIds) THEN Reject(s, "Duplicate cards in discard selection")
    ELSE IF \E i \in 1..Len(cardIds) : ~Has(s.players[seat].hand, cardIds[i])
    THEN Reject(s, "Card is not in your hand")
    ELSE HuntDiscarded(Log(DiscardLoop(s, seat, cardIds)), s.pendingAction)


(***************************************************************************)
(* Tithe                                                                   *)
(***************************************************************************)
RECURSIVE drawForPlayer(_, _, _), DrawnForPlayer(_, _, _)
drawForPlayer(s, seat, count) ==
    IF count = 0 THEN s ELSE DrawnForPlayer(drawCard(s), seat, count)

DrawnForPlayer(d, seat, count) ==
    IF d.card = NoCard THEN triggerDeckExhaustion(d.st)
    ELSE drawForPlayer([d.st EXCEPT !.players[seat].hand = @ (+) One(d.card)],
                       seat, count - 1)

(* pending.playerSeat ?? 0: a titheDiscard record has no playerSeat field. *)
PlayerSeatOrZero(pending) ==
    IF "playerSeat" \in DOMAIN pending THEN pending.playerSeat ELSE 0

finishTitheKeepPhase(s, pending, contributed) ==
    IF contributed
    THEN [Log(s) EXCEPT !.players[PlayerSeatOrZero(pending)].territory =
                            @ (+) One(pending.titheCardId),
                        !.pendingAction = NoPending]
    ELSE [Log(s) EXCEPT !.discard = @ (+) One(pending.titheCardId),
                        !.pendingAction = NoPending]

finishTithe(s, pending, contributed) ==
    IF contributed
    THEN Phase([Log(s) EXCEPT !.players[PlayerSeatOrZero(pending)].territory =
                                  @ (+) One(pending.titheCardId),
                              !.pendingAction = NoPending],
               "endOfTurn")
    ELSE Phase([Log(s) EXCEPT !.discard = @ (+) One(pending.titheCardId),
                              !.pendingAction = NoPending],
               "endOfTurn")

TitheContributePending(pending) ==
    [type |-> "titheContribute",
     playerSeat |-> pending.tithePlayerSeat,
     titheCardId |-> pending.titheCardId,
     contributionsSoFar |-> pending.contributionsSoFar]

RECURSIVE TitheSkipLoop(_, _, _), TitheSkipDrawn(_, _, _)
TitheSkipLoop(s, pending, remaining) ==
    IF Len(remaining) > 0
    THEN IF s.players[Head(remaining)].eliminated
         THEN TitheSkipLoop(s, pending, Tail(remaining))
         ELSE IF BagCardinality(s.players[Head(remaining)].hand) = 0
         THEN TitheSkipDrawn(drawForPlayer(s, Head(remaining), 2), pending, Tail(remaining))
         ELSE [s EXCEPT !.pendingAction =
                  [pending EXCEPT !.currentDiscardSeat = Head(remaining),
                                  !.remainingDiscardSeats = Tail(remaining)]]
    ELSE IF s.players[pending.tithePlayerSeat].eliminated
         THEN finishTithe(s, pending, FALSE)
         ELSE [s EXCEPT !.pendingAction = TitheContributePending(pending)]

TitheSkipDrawn(s, pending, remaining) ==
    IF s.winner # "null" THEN s ELSE TitheSkipLoop(s, pending, remaining)

handleTitheSkipEliminated(s, pending) ==
    TitheSkipLoop(s, pending, pending.remainingDiscardSeats)

handleTitheAdvance(s) == handleTitheSkipEliminated(s, s.pendingAction)

TitheDiscardPending(seat, cardId, current, remaining, soFar) ==
    [type |-> "titheDiscard",
     tithePlayerSeat |-> seat,
     titheCardId |-> cardId,
     currentDiscardSeat |-> current,
     remainingDiscardSeats |-> remaining,
     contributionsSoFar |-> soFar]

TitheOpenedEmptyHand(s, seat, cardId, opponentSeats) ==
    IF s.winner # "null" THEN Accept(s)
    ELSE IF Len(opponentSeats) > 0
    THEN Accept([s EXCEPT !.pendingAction =
            TitheDiscardPending(seat, cardId, Head(opponentSeats), Tail(opponentSeats), 0)])
    ELSE Accept([s EXCEPT !.pendingAction =
            [type |-> "titheContribute",
             playerSeat |-> seat,
             titheCardId |-> cardId,
             contributionsSoFar |-> 0]])

TitheOpened(s, seat, cardId, opponentSeats) ==
    IF BagCardinality(s.players[seat].hand) > 0
    THEN Accept([s EXCEPT !.pendingAction =
            TitheDiscardPending(seat, cardId, seat, opponentSeats, 0)])
    ELSE TitheOpenedEmptyHand(drawForPlayer(s, seat, 2), seat, cardId, opponentSeats)

handlePlayTithe(s, seat, cardId) ==
    IF s.turnPhase # "territoryAction" THEN Reject(s, "Not in territory action phase")
    ELSE IF parseCardType(cardId) # "tithe" THEN Reject(s, "Not a Tithe card")
    ELSE IF ~Has(s.players[seat].hand, cardId) THEN Reject(s, "Card not in your hand")
    ELSE TitheOpened(Log([s EXCEPT !.players[seat].hand = @ (-) One(cardId)]),
                     seat, cardId, getOpponentSeatsInOrder(s, seat))

TitheNextDrawn(s, pending) ==
    IF s.winner # "null" THEN s
    ELSE handleTitheAdvance(
             [s EXCEPT !.pendingAction =
                 [pending EXCEPT !.remainingDiscardSeats = Tail(@)]])

TitheAfterDiscard(s, pending) ==
    IF Len(pending.remainingDiscardSeats) > 0
    THEN IF s.players[Head(pending.remainingDiscardSeats)].eliminated
         THEN handleTitheSkipEliminated(
                  [s EXCEPT !.pendingAction =
                      [pending EXCEPT
                          !.currentDiscardSeat = Head(pending.remainingDiscardSeats),
                          !.remainingDiscardSeats = Tail(@)]],
                  pending)
         ELSE IF BagCardinality(s.players[Head(pending.remainingDiscardSeats)].hand) = 0
         THEN TitheNextDrawn(drawForPlayer(s, Head(pending.remainingDiscardSeats), 2),
                             pending)
         ELSE [s EXCEPT !.pendingAction =
                  [pending EXCEPT
                      !.currentDiscardSeat = Head(pending.remainingDiscardSeats),
                      !.remainingDiscardSeats = Tail(@)]]
    ELSE IF s.players[pending.tithePlayerSeat].eliminated THEN finishTithe(s, pending, FALSE)
    ELSE IF pending.contributionsSoFar >= 2 THEN finishTithe(s, pending, TRUE)
    ELSE [s EXCEPT !.pendingAction = TitheContributePending(pending)]

TitheRedrawn(s, pending) ==
    IF s.winner # "null" THEN Accept(s) ELSE Accept(TitheAfterDiscard(s, pending))

(* A Tithe discard after which the discarder draws, eliminated or not. *)
TitheDiscardedAlwaysDraws(s, seat, pending) ==
    TitheRedrawn(drawForPlayer(Log(s), seat, 2), pending)

TitheDiscarded(s, seat, pending) ==
    IF ~s.players[seat].eliminated
    THEN TitheRedrawn(drawForPlayer(Log(s), seat, 2), pending)
    ELSE Accept(TitheAfterDiscard(s, pending))

handleTitheDiscard(s, seat, cardIds) ==
    IF s.pendingAction.type # "titheDiscard" THEN Reject(s, "No pending tithe discard")
    ELSE IF s.pendingAction.currentDiscardSeat # seat
    THEN Reject(s, "Not your turn to discard")
    ELSE IF Len(cardIds) # Min(2, BagCardinality(s.players[seat].hand))
    THEN Reject(s, "Must discard exactly mustDiscard card(s)")
    ELSE IF ~IsDistinct(cardIds) THEN Reject(s, "Duplicate cards")
    ELSE IF \E i \in 1..Len(cardIds) : ~Has(s.players[seat].hand, cardIds[i])
    THEN Reject(s, "Card is not in your hand")
    ELSE TitheDiscarded(DiscardLoop(s, seat, cardIds), seat, s.pendingAction)

TitheCycleDrawn(s, pending) ==
    IF s.winner # "null" THEN Accept(s)
    ELSE IF pending.contributionsSoFar + 1 < 2
    THEN Accept([s EXCEPT !.pendingAction =
            [type |-> "titheContribute",
             playerSeat |-> pending.playerSeat,
             titheCardId |-> pending.titheCardId,
             contributionsSoFar |-> pending.contributionsSoFar + 1]])
    ELSE Accept(finishTithe(s, pending, TRUE))

TitheCycle(s, seat, pending) ==
    IF BagCardinality(s.players[seat].hand) > 0
    THEN Accept([s EXCEPT !.pendingAction =
            TitheDiscardPending(pending.playerSeat, pending.titheCardId,
                                pending.playerSeat, <<>>,
                                pending.contributionsSoFar + 1)])
    ELSE TitheCycleDrawn(drawForPlayer(s, seat, 2), pending)

handleTitheContributeUncapped(s, seat, contribute) ==
    IF s.pendingAction.type # "titheContribute"
    THEN Reject(s, "No pending tithe contribute")
    ELSE IF s.pendingAction.playerSeat # seat THEN Reject(s, "Not your turn")
    ELSE IF ~contribute
    THEN Accept(finishTithe(s, s.pendingAction, s.pendingAction.contributionsSoFar > 0))
    ELSE IF s.players[seat].contributionsRemaining < 1
    THEN Reject(s, "Not enough contributions remaining")
    ELSE TitheCycle(Log([s EXCEPT !.players[seat].contributionsRemaining = @ - 1,
                                  !.players[seat].contributionsMade = @ + 1]),
                    seat, s.pendingAction)

handleTitheContribute(s, seat, contribute) ==
    IF s.pendingAction.type # "titheContribute"
    THEN Reject(s, "No pending tithe contribute")
    ELSE IF s.pendingAction.playerSeat # seat THEN Reject(s, "Not your turn")
    ELSE IF ~contribute \/ s.pendingAction.contributionsSoFar >= 2
    THEN Accept(finishTithe(s, s.pendingAction, s.pendingAction.contributionsSoFar > 0))
    ELSE IF s.players[seat].contributionsRemaining < 1
    THEN Reject(s, "Not enough contributions remaining")
    ELSE TitheCycle(Log([s EXCEPT !.players[seat].contributionsRemaining = @ - 1,
                                  !.players[seat].contributionsMade = @ + 1]),
                    seat, s.pendingAction)


(***************************************************************************)
(* King's Command                                                          *)
(***************************************************************************)
goToCollection(s, pending) ==
    IF Len(pending.discardedStags) = 0 \/ s.players[pending.commandPlayerSeat].eliminated
    THEN Phase([s EXCEPT !.pendingAction = NoPending], "endOfTurn")
    ELSE [s EXCEPT !.pendingAction =
             [type |-> "kingCommandCollect",
              commandPlayerSeat |-> pending.commandPlayerSeat,
              discardedStags |-> pending.discardedStags]]

KingsCommandOpened(s, seat, opponentSeats) ==
    IF Len(opponentSeats) = 0
    THEN Accept(Phase(s, "endOfTurn"))
    ELSE Accept([s EXCEPT !.pendingAction =
            [type |-> "kingCommandResponse",
             commandPlayerSeat |-> seat,
             respondingSeat |-> Head(opponentSeats),
             remainingResponderSeats |-> Tail(opponentSeats),
             discardedStags |-> <<>>]])

handlePlayKingsCommand(s, seat, cardId) ==
    IF s.turnPhase # "territoryAction" THEN Reject(s, "Not in territory action phase")
    ELSE IF parseCardType(cardId) # "kingscommand" THEN Reject(s, "Not a King's Command card")
    ELSE IF ~Has(s.players[seat].hand, cardId) THEN Reject(s, "Card not in your hand")
    ELSE KingsCommandOpened(
             Log([s EXCEPT !.players[seat].hand = @ (-) One(cardId),
                           !.players[seat].territory = @ (+) One(cardId)]),
             seat, getOpponentSeatsInOrder(s, seat))

(* The while loop that shifts past eliminated responders: the first seat   *)
(* that is not eliminated, or the last seat shifted, with what is left.    *)
RECURSIVE SkipEliminated(_, _, _)
SkipEliminated(s, nextSeat, nextSeats) ==
    IF s.players[nextSeat].eliminated /\ Len(nextSeats) > 0
    THEN SkipEliminated(s, Head(nextSeats), Tail(nextSeats))
    ELSE [nextSeat |-> nextSeat, nextSeats |-> nextSeats]

KingCommandNext(s, pending, n) ==
    IF s.players[n.nextSeat].eliminated THEN goToCollection(s, pending)
    ELSE [s EXCEPT !.pendingAction =
             [pending EXCEPT !.respondingSeat = n.nextSeat,
                             !.remainingResponderSeats = n.nextSeats]]

KingCommandAdvance(s, pending) ==
    IF Len(pending.remainingResponderSeats) > 0
    THEN KingCommandNext(s, pending,
             SkipEliminated(s, Head(pending.remainingResponderSeats),
                            Tail(pending.remainingResponderSeats)))
    ELSE goToCollection(s, pending)

StagSurrendered(s) ==
    IF s.winner # "null" THEN Accept([s EXCEPT !.pendingAction = NoPending])
    ELSE Accept(KingCommandAdvance(s, s.pendingAction))

TrackStag(s, stagId) ==
    [s EXCEPT !.pendingAction.discardedStags = Append(@, stagId)]

handleKingCommandResponseLenient(s, seat, stagId) ==
    IF s.pendingAction.type # "kingCommandResponse"
    THEN Reject(s, "No pending king command response")
    ELSE IF s.pendingAction.respondingSeat # seat THEN Reject(s, "Not your turn to respond")
    ELSE IF stagId = NoCard
    THEN Accept(KingCommandAdvance(Log(s), s.pendingAction))
    ELSE IF parseCardType(stagId) # "stag" THEN Reject(s, "Not a Stag card")
    ELSE IF ~Has(s.players[seat].hand, stagId) THEN Reject(s, "Card not in your hand")
    ELSE StagSurrendered(
             TrackStag(applyAtonement(discardFromHand(Log(s), seat, stagId), seat, stagId),
                       stagId))

handleKingCommandResponse(s, seat, stagId) ==
    IF s.pendingAction.type # "kingCommandResponse"
    THEN Reject(s, "No pending king command response")
    ELSE IF s.pendingAction.respondingSeat # seat THEN Reject(s, "Not your turn to respond")
    ELSE IF stagId = NoCard
    THEN IF SelectBag(s.players[seat].hand, "stag") # {}
         THEN Reject(s, "You have Stags in your hand and must discard one")
         ELSE Accept(KingCommandAdvance(Log(s), s.pendingAction))
    ELSE IF parseCardType(stagId) # "stag" THEN Reject(s, "Not a Stag card")
    ELSE IF ~Has(s.players[seat].hand, stagId) THEN Reject(s, "Card not in your hand")
    ELSE StagSurrendered(
             TrackStag(applyAtonement(discardFromHand(Log(s), seat, stagId), seat, stagId),
                       stagId))

RECURSIVE CollectLoop(_, _, _)
CollectLoop(s, seat, stagIds) ==
    IF stagIds = <<>> THEN s
    ELSE CollectLoop(
             [s EXCEPT !.discard = IF Has(@, Head(stagIds)) THEN @ (-) One(Head(stagIds))
                                   ELSE @,
                       !.players[seat].hand = @ (+) One(Head(stagIds))],
             seat, Tail(stagIds))

(* A collection that does not ask whose it is. *)
handleKingCommandCollectAnySeat(s, seat, stagIds) ==
    IF s.pendingAction.type # "kingCommandCollect"
    THEN Reject(s, "No pending king command collect")
    ELSE IF \E i \in 1..Len(stagIds) : stagIds[i] \notin SeqToSet(s.pendingAction.discardedStags)
    THEN Reject(s, "Stag is not available to collect")
    ELSE Accept(Phase([Log(CollectLoop(s, seat, stagIds)) EXCEPT
                           !.pendingAction = NoPending],
                      "endOfTurn"))

handleKingCommandCollect(s, seat, stagIds) ==
    IF s.pendingAction.type # "kingCommandCollect"
    THEN Reject(s, "No pending king command collect")
    ELSE IF s.pendingAction.commandPlayerSeat # seat THEN Reject(s, "Not your turn to collect")
    ELSE IF \E i \in 1..Len(stagIds) : stagIds[i] \notin SeqToSet(s.pendingAction.discardedStags)
    THEN Reject(s, "Stag is not available to collect")
    ELSE Accept(Phase([Log(CollectLoop(s, seat, stagIds)) EXCEPT
                           !.pendingAction = NoPending],
                      "endOfTurn"))

(***************************************************************************)
(* View projector: the actions a player is offered                         *)
(***************************************************************************)
computePendingActions(pending, seat) ==
    CASE pending.type = "draftKingdom" ->
            IF pending.currentDrafterSeat = seat THEN <<"draftKingdomPick">> ELSE <<>>
      [] pending.type = "huntResponse" ->
            IF pending.respondingSeat = seat THEN <<"huntResponse">> ELSE <<>>
      [] pending.type = "huntDiscard" ->
            IF pending.currentDiscardSeat = seat THEN <<"huntDiscard">> ELSE <<>>
      [] pending.type = "magiChoice" ->
            IF pending.playerSeat = seat THEN <<"magiChoice">> ELSE <<>>
      [] pending.type = "magiPlaceCards" ->
            IF pending.playerSeat = seat THEN <<"magiPlaceCards">> ELSE <<>>
      [] pending.type = "titheContribute" ->
            IF pending.playerSeat = seat THEN <<"titheContribute">> ELSE <<>>
      [] pending.type = "titheDiscard" ->
            IF pending.currentDiscardSeat = seat THEN <<"titheDiscard">> ELSE <<>>
      [] pending.type = "kingCommandResponse" ->
            IF pending.respondingSeat = seat THEN <<"kingCommandResponse">> ELSE <<>>
      [] pending.type = "kingCommandCollect" ->
            IF pending.commandPlayerSeat = seat THEN <<"kingCommandCollect">> ELSE <<>>
      [] pending.type = "stagKingdomDraft" ->
            IF pending.currentDrafterSeat = seat THEN <<"stagKingdomPick">> ELSE <<>>
      [] pending.type = "stagKingdomPickSelf" ->
            IF pending.stagPlayerSeat = seat THEN <<"stagKingdomPick">> ELSE <<>>
      [] pending.type = "discardToHandLimit" ->
            IF pending.playerSeat = seat THEN <<"discardToHandLimit">> ELSE <<>>
      [] pending.type = "discardForCost" ->
            IF pending.playerSeat = seat THEN <<"discardForCost">> ELSE <<>>
      [] OTHER -> <<>>

KingdomActions(s, me) ==
    <<"drawCard">>
    \o (IF BagCardinality(s.kingdom) > 0 THEN <<"draftKingdom">> ELSE <<>>)
    \o (IF \E stagId \in SelectBag(me.hand, "stag") :
              BagCardinality(me.hand) - 1 >= PlayStagCost(parseCardValue(stagId))
        THEN <<"playStag">> ELSE <<>>)

(* A territory phase that offers nothing to a hand without a playable card. *)
TerritoryActionsPlayOnly(me) ==
    IF \E c \in BagToSet(me.hand) : parseCardType(c) # "stag"
    THEN <<"playTerritory">> ELSE <<>>

TerritoryActions(me) ==
    IF \E c \in BagToSet(me.hand) : parseCardType(c) # "stag"
    THEN <<"playTerritory">> ELSE <<"noTerritory">>

EndOfTurnActionsNone(me) == <<>>

EndOfTurnActions(me) ==
    IF BagCardinality(me.hand) > getHandLimit(me) THEN <<"discardToHandLimit">> ELSE <<>>

TurnActions(s, me) ==
    CASE s.turnPhase = "kingdomAction" -> KingdomActions(s, me)
      [] s.turnPhase = "territoryAction" -> TerritoryActions(me)
      [] s.turnPhase = "endOfTurn" -> EndOfTurnActions(me)
      [] OTHER -> <<>>

(* playerOrder[currentPlayerIndex] is undefined past the end of the list. *)
IsMyTurn(s, seat) ==
    /\ s.currentPlayerIndex < Len(s.playerOrder)
    /\ s.playerOrder[s.currentPlayerIndex + 1] = seat

computeAvailableActionsAfterWin(s, seat) ==
    IF s.pendingAction # NoPending THEN computePendingActions(s.pendingAction, seat)
    ELSE IF ~IsMyTurn(s, seat) THEN <<>>
    ELSE TurnActions(s, s.players[seat])

computeAvailableActions(s, seat) ==
    IF s.winner # "null" THEN <<>>
    ELSE IF s.pendingAction # NoPending THEN computePendingActions(s.pendingAction, seat)
    ELSE IF ~IsMyTurn(s, seat) THEN <<>>
    ELSE TurnActions(s, s.players[seat])

(***************************************************************************)
(* Game states the model starts from.  Every card of the catalog that is   *)
(* not placed by the scenario is in the burned pile.                       *)
(***************************************************************************)
StartTokens == 12

Player(hand, territory, remaining, ante) ==
    [hand |-> SetToBag(hand),
     territory |-> SetToBag(territory),
     territoryMagiAsHealing |-> EmptyBag,
     contributionsRemaining |-> remaining,
     contributionsMade |-> StartTokens - remaining,
     ante |-> ante,
     eliminated |-> FALSE]

Eliminated(territory, remaining, ante) ==
    [Player({}, territory, remaining, ante) EXCEPT !.eliminated = TRUE]

PlacedCards(ps, dk, dc, kd) ==
    UNION {BagToSet(ps[i].hand) \cup BagToSet(ps[i].territory) : i \in 1..Len(ps)}
    \cup SeqToSet(dk) \cup dc \cup kd

Game(ps, dk, dc, kd, cur, phase) ==
    [players |-> [p \in Seats |-> ps[p + 1]],
     playerOrder |-> SelectSeq(<<0, 1, 2>>, LAMBDA p : ~ps[p + 1].eliminated),
     currentPlayerIndex |-> cur,
     turnPhase |-> phase,
     pendingAction |-> NoPending,
     deck |-> dk,
     discard |-> SetToBag(dc),
     kingdom |-> SetToBag(kd),
     burned |-> SetToBag(ALL_CARDS \ PlacedCards(ps, dk, dc, kd)),
     log |-> 0,
     winner |-> "null",
     winReason |-> "null"]

(* Three living players in the territory action.  The active seat holds  *)
(* the one card with an interactive effect: seat 0 a Hunt, seat 1 a Tithe, *)
(* seat 2 a King's Command.  The deck holds no such card.                  *)
Playable(cur) ==
    CASE cur = 0 -> Card("hunt", 5) [] cur = 1 -> Card("tithe", 1)
      [] OTHER -> Card("kingscommand", 1)

(* The hunter also holds a Magi: a Hunt nobody averts leaves them with    *)
(* six cards, one over the hand limit.                                     *)
Spare(cur) == IF cur = 0 THEN {Card("magi", 3)} ELSE {}

HandWith(hand, seat, cur) ==
    IF seat = cur THEN hand \cup {Playable(cur)} \cup Spare(cur) ELSE hand

(* Seat 2 has drafted a card this turn: the kingdom holds two cards, so    *)
(* the refresh that follows their turn deals a new kingdom; with the short *)
(* deck of one card it has to reshuffle.                                   *)
DeckFor(cur, short) ==
    IF cur = 2 /\ short THEN <<Card("healing", 1)>>
    ELSE <<Card("healing", 1), Card("stag", 1), Card("magi", 2), Card("stag", 3),
           Card("healing", 2)>>

KingdomFor(cur) ==
    IF cur = 2 THEN {Card("healing", 3), Card("healing", 5)}
    ELSE {Card("healing", 3), Card("healing", 5), Card("healing", 6)}

ThreePlayers ==
    {Game(<<Player(HandWith({Card("stag", 10), Card("healing", 8)}, 0, cur),
                   {Card("hunt", 9), Card("kingscommand", 2)}, 12, 1),
            Player(HandWith({Card("healing", 7), Card("magi", 1), Card("stag", 5)}, 1, cur),
                   {Card("healing", 9)}, r1, 1),
            Player(HandWith({Card("stag", 2), Card("stag", 6), Card("healing", 4)}, 2, cur),
                   {Card("healing", 10), Card("healing", 11)}, r2, 1)>>,
          DeckFor(cur, short),
          {},
          KingdomFor(cur),
          cur, "territoryAction")
       : r1 \in {1, 12}, r2 \in {0, 12}, cur \in 0..2, short \in BOOLEAN}

(* Two living players and a deck of three cards, or of two: a Hunt burns   *)
(* the deck out, and the only opponent cannot atone for the Stag they      *)
(* hold, or holds no card at all.  The hunter already has two Hunts in     *)
(* territory.                                                              *)
TwoPlayers ==
    {Game(<<Player({Card("hunt", 5)} \cup extra,
                   {Card("hunt", 9), Card("hunt", 10)}, 12, 1),
            Player(held, {}, 1, 1),
            Eliminated({Card("tithe", 3)}, 0, 1)>>,
          dk,
          {},
          {Card("healing", 4), Card("healing", 5), Card("healing", 6)},
          0, "territoryAction")
       : extra \in {{}, {Card("tithe", 1)}, {Card("kingscommand", 1)}},
         held \in {{Card("stag", 5)}, {}},
         dk \in {<<Card("healing", 1), Card("stag", 1), Card("hunt", 1)>>,
                 <<Card("healing", 1), Card("stag", 1)>>}}

(* The scoring example: A (seat 0) has 2 Stags, 1 Tithe and 3 tokens paid; *)
(* B (seat 1) has 3 Stags, a King's Command, 1 token paid and 1 ante; the  *)
(* eliminated seat 2 would outscore both.  The deck is about to run out.   *)
Scoring ==
    {Game(<<Player({Card("healing", 1)},
                   {Card("stag", 1), Card("stag", 3), Card("tithe", 2)} \cup extraA, 9, 0),
            Player({Card("healing", 2)},
                   {Card("stag", 4), Card("stag", 6), Card("stag", 7), Card("kingscommand", 2)},
                   StartTokens - madeB, 1),
            Eliminated({Card("tithe", 3), Card("tithe", 4)}, 0, 1)>>,
          dk,
          {},
          {Card("healing", 4), Card("healing", 5), Card("healing", 6)},
          cur, "kingdomAction")
       : extraA \in {{}, {Card("magi", 3)}, {Card("kingscommand", 3)}},
         madeB \in {1, 3},
         dk \in {<<>>, <<Card("hunt", 1)>>},
         cur \in 0..1}

(* A turn from its kingdom action on: seat 0 can draw and then end the     *)
(* turn with a King's Command that finds no Stag; the deck lasts into the  *)
(* next turn.                                                              *)
Drawing ==
    {Game(<<Player({Card("kingscommand", 1)}, {}, 12, 1),
            Player({Card("healing", 2)}, {}, 12, 1),
            Eliminated({Card("tithe", 3)}, 0, 1)>>,
          <<Card("healing", 1), Card("stag", 1), Card("magi", 2), Card("stag", 3),
            Card("healing", 3)>>,
          {},
          {Card("healing", 4), Card("healing", 5), Card("healing", 6)},
          0, "kingdomAction")}

Scenarios == ThreePlayers \cup TwoPlayers \cup Scoring \cup Drawing

(***************************************************************************)
(* Action dispatch: a submitted action runs its handler and, when it is    *)
(* accepted, autoAdvance; a rejection is returned to the caller.           *)
(***************************************************************************)
MaxIds == 3

MaxShuffle == 2

MaxLog == 24

Idle == [op |-> "idle", seat |-> 0, err |-> "null", ev |-> <<>>]

GS(rnd) ==
    [players |-> players, playerOrder |-> playerOrder,
     currentPlayerIndex |-> currentPlayerIndex, turnPhase |-> turnPhase,
     pendingAction |-> pendingAction, deck |-> deck, discard |-> discard,
     kingdom |-> kingdom, burned |-> burned, log |-> log, winner |-> winner,
     winReason |-> winReason, rnd |-> rnd, ev |-> <<>>]

Store(s) ==
    /\ players' = s.players
    /\ playerOrder' = s.playerOrder
    /\ currentPlayerIndex' = s.currentPlayerIndex
    /\ turnPhase' = s.turnPhase
    /\ pendingAction' = s.pendingAction
    /\ deck' = s.deck
    /\ discard' = s.discard
    /\ kingdom' = s.kingdom
    /\ burned' = s.burned
    /\ log' = s.log
    /\ winner' = s.winner
    /\ winReason' = s.winReason

(* An accepted action is followed by autoAdvance before the state is *)
(* stored; a rejected one leaves the state it returned.                *)
Settle(r) == IF r.err = "null" THEN autoAdvance(r.st) ELSE r.st

Record(op, seat, err, s) ==
    /\ Store(s)
    /\ last' = [op |-> op, seat |-> seat, err |-> err, ev |-> s.ev]
    /\ pc' = IF err = "null" THEN "await" ELSE "rejected"

Dispatch(op, seat, r) == Record(op, seat, r.err, Settle(r))

gameVars == <<deck, discard, burned, kingdom, players, playerOrder,
              currentPlayerIndex, turnPhase, pendingAction, log, winner, winReason>>

Init ==
    /\ \E g \in Scenarios :
          /\ players = g.players
          /\ playerOrder = g.playerOrder
          /\ currentPlayerIndex = g.currentPlayerIndex
          /\ turnPhase = g.turnPhase
          /\ pendingAction = g.pendingAction
          /\ deck = g.deck
          /\ discard = g.discard
          /\ kingdom = g.kingdom
          /\ burned = g.burned
          /\ log = g.log
          /\ winner = g.winner
          /\ winReason = g.winReason
    /\ last = Idle
    /\ pc = "await"

Rnd == 0..(MaxShuffle - 1)

(* rs[rnd] is the handler's result under the shuffle draw rnd.  A handler  *)
(* rejects before it draws: the draw only matters when the call is         *)
(* accepted.                                                               *)
Submit(op, seat, rs) ==
    IF rs[0].err # "null" THEN Dispatch(op, seat, rs[0])
    ELSE \E rnd \in Rnd : Dispatch(op, seat, rs[rnd])

(* The engine is waiting for a submission (the log is capped: after a win *)
(* the same response can be accepted again and again).                     *)
Waiting == pc = "await" /\ log < MaxLog

HasCurrent == currentPlayerIndex < Len(playerOrder)

CurrentSeat == playerOrder[currentPlayerIndex + 1]

HandOf(seat) == BagToSet(players[seat].hand)

(* One card of each type that the scenarios leave in the burned pile. *)
Foreign(t) ==
    CASE t = "stag" -> Card("stag", 12) [] t = "hunt" -> Card("hunt", 12)
      [] t = "healing" -> Card("healing", 12) [] t = "magi" -> Card("magi", 6)
      [] t = "tithe" -> Card("tithe", 6) [] OTHER -> Card("kingscommand", 3)

IdSeqs(S) == UNION {[1..n -> S] : n \in 0..MaxIds}

Awaited(field) ==
    IF field \in DOMAIN pendingAction THEN {pendingAction[field]} ELSE {}

(* The id lists a seat submits: any list when the seat is the awaited one, *)
(* the empty list otherwise (the handler rejects before reading the list). *)
IdInputs(seat, field, S) ==
    IF seat \in Awaited(field) THEN IdSeqs(S) ELSE {<<>>}

DrawCardAction ==
    /\ Waiting /\ HasCurrent
    /\ Submit("drawCard", CurrentSeat,
                 [rnd \in Rnd |-> handleDrawCard(GS(rnd), CurrentSeat)])

PlayHunt ==
    /\ Waiting /\ HasCurrent
    /\ \E cardId \in HandOf(CurrentSeat) \cup {Foreign("hunt")} :
          Submit("playHunt", CurrentSeat,
                 [rnd \in Rnd |-> handlePlayHunt(GS(rnd), CurrentSeat, cardId)])

HuntResponse ==
    /\ Waiting
    /\ \E seat \in Seats :
       \E healingId \in {NoCard} \cup HandOf(seat) \cup {Foreign("healing")},
          magiId \in {NoCard} \cup HandOf(seat) \cup {Foreign("magi")} :
          Submit("huntResponse", seat,
                 [rnd \in Rnd |-> handleHuntResponse(GS(rnd), seat, healingId, magiId)])

HuntDiscard ==
    /\ Waiting
    /\ \E seat \in Seats :
       \E cardIds \in IdInputs(seat, "currentDiscardSeat", HandOf(seat) \cup {Foreign("stag")}) :
          Submit("huntDiscard", seat,
                 [rnd \in Rnd |-> handleHuntDiscard(GS(rnd), seat, cardIds)])

PlayTithe ==
    /\ Waiting /\ HasCurrent
    /\ \E cardId \in HandOf(CurrentSeat) \cup {Foreign("tithe")} :
          Submit("playTithe", CurrentSeat,
                 [rnd \in Rnd |-> handlePlayTithe(GS(rnd), CurrentSeat, cardId)])

TitheDiscard ==
    /\ Waiting
    /\ \E seat \in Seats :
       \E cardIds \in IdInputs(seat, "currentDiscardSeat", HandOf(seat) \cup {Foreign("stag")}) :
          Submit("titheDiscard", seat,
                 [rnd \in Rnd |-> handleTitheDiscard(GS(rnd), seat, cardIds)])

TitheContribute ==
    /\ Waiting
    /\ \E seat \in Seats, contribute \in BOOLEAN :
          Submit("titheContribute", seat,
                 [rnd \in Rnd |-> handleTitheContribute(GS(rnd), seat, contribute)])

PlayKingsCommand ==
    /\ Waiting /\ HasCurrent
    /\ \E cardId \in HandOf(CurrentSeat) \cup {Foreign("kingscommand")} :
          Submit("playKingsCommand", CurrentSeat,
                 [rnd \in Rnd |-> handlePlayKingsCommand(GS(rnd), CurrentSeat, cardId)])

KingCommandResponse ==
    /\ Waiting
    /\ \E seat \in Seats :
       \E stagId \in {NoCard} \cup HandOf(seat) \cup {Foreign("stag")} :
          Submit("kingCommandResponse", seat,
                 [rnd \in Rnd |-> handleKingCommandResponse(GS(rnd), seat, stagId)])

CollectChoices ==
    IF "discardedStags" \in DOMAIN pendingAction
    THEN SeqToSet(pendingAction.discardedStags) \cup {Foreign("stag")}
    ELSE {}

KingCommandCollect ==
    /\ Waiting
    /\ \E seat \in Seats :
       \E stagIds \in IdInputs(seat, "commandPlayerSeat", CollectChoices) :
          Submit("kingCommandCollect", seat,
                 [rnd \in Rnd |-> handleKingCommandCollect(GS(rnd), seat, stagIds)])

(* The rejection string goes back to the caller; nothing else happens. *)
ReturnRejection ==
    /\ pc = "rejected"
    /\ pc' = "await"
    /\ last' = Idle
    /\ UNCHANGED gameVars

Next ==
    \/ DrawCardAction
    \/ PlayHunt
    \/ HuntResponse
    \/ HuntDiscard
    \/ PlayTithe
    \/ TitheDiscard
    \/ TitheContribute
    \/ PlayKingsCommand
    \/ KingCommandResponse
    \/ KingCommandCollect
    \/ ReturnRejection

Spec == Init /\ [][Next]_vars

(***************************************************************************)
(* Properties                                                              *)
(***************************************************************************)
AliveNow == {p \in Seats : ~players[p].eliminated}

HasEvent(kind) == \E i \in 1..Len(last.ev) : last.ev[i].k = kind

RECURSIVE HeldBySeats(_, _)
HeldBySeats(c, p) ==
    IF p \notin Seats THEN 0
    ELSE CopiesIn(c, players[p].hand) + CopiesIn(c, players[p].territory)
         + HeldBySeats(c, p + 1)

ZoneCount(c) ==
    CopiesIn(c, SeqToBag(deck)) + CopiesIn(c, discard) + CopiesIn(c, burned)
    + CopiesIn(c, kingdom) + HeldBySeats(c, 0)

(* C1: between actions, also while a Hunt, Tithe or King's Command is      *)
(* pending and after the game has ended, each of the 51 card ids occurs    *)
(* exactly once across deck, discard, burned, kingdom, hands, territories. *)
CardConservation == pc = "await" => \A c \in ALL_CARDS : ZoneCount(c) = 1

(* C2: a handler that returns a rejection string leaves the whole          *)
(* GameState as it was before the call.                                    *)
NoMutationOnRejection == [][pc' = "rejected" => UNCHANGED gameVars]_vars

RejectedStagDenial ==
    /\ pc = "rejected"
    /\ last.op = "kingCommandResponse"
    /\ last.err = "You have Stags in your hand and must discard one"
    /\ pendingAction.type = "kingCommandResponse"
    /\ SelectBag(players[last.seat].hand, "stag") # {}

(* The values winner/winReason take through one action: the value before   *)
(* it, then one value per declaration the action makes, in order.          *)
Declared(ev) == SelectSeq(ev, LAMBDA e : e.k \in {"lastStanding", "deckOut"})

WinValues(w, r, ev) ==
    <<[w |-> w, r |-> r]>>
    \o [i \in 1..Len(Declared(ev)) |->
           [w |-> PlayerId(Declared(ev)[i].seat), r |-> Declared(ev)[i].k]]

SetOnce(vals) ==
    \A i, j \in 1..Len(vals) :
        (i < j /\ (vals[i].w # "null" \/ vals[i].r # "null")) => vals[j] = vals[i]

(* C3: once winner or winReason is non-null, no later step, in the same    *)
(* handler or in a later action, changes either of them.                   *)
WinnerSetOnce ==
    [][/\ SetOnce(WinValues(winner, winReason, last'.ev))
       /\ (winner # "null" \/ winReason # "null")
              => (winner' = winner /\ winReason' = winReason)]_vars

(* C4: once winner is set, every action submitted is rejected and leaves   *)
(* the state unchanged.                                                    *)
ImmutableAfterWin ==
    [][(winner # "null" /\ pc = "await") => (pc' = "rejected" /\ UNCHANGED gameVars)]_vars

StagValues == {parseCardValue(c) : c \in {d \in ALL_CARDS : parseCardType(d) = "stag"}}

ClaimedDiscardCost(v) == CASE v <= 3 -> 1 [] v \in 4..6 -> 2 [] v \in 7..9 -> 4 [] OTHER -> 8

(* C5: a Stag of value v costs 1 discard for v<=3, 2 for v<=6, 4 for v<=9  *)
(* and 8 for v<=12, and stagDiscardCost and the view's playStag check use  *)
(* that same cost, for every value and for every Stag a player holds.      *)
StagDiscardCostTable ==
    /\ \A v \in StagValues :
          stagDiscardCost(v) = ClaimedDiscardCost(v) /\ PlayStagCost(v) = stagDiscardCost(v)
    /\ \A p \in Seats : \A c \in SelectBag(players[p].hand, "stag") :
          /\ stagDiscardCost(parseCardValue(c)) = ClaimedDiscardCost(parseCardValue(c))
          /\ PlayStagCost(parseCardValue(c)) = stagDiscardCost(parseCardValue(c))

ClaimedAtonementCost(v) == CASE v <= 4 -> 1 [] v \in 5..8 -> 2 [] OTHER -> 3

(* C6: stagAtonementCost(v) is 1 for v<=4, 2 for 5<=v<=8, 3 for v>=9, for  *)
(* every value 1..12 and in every atonement an action has just paid.       *)
AtonementCostTable ==
    /\ \A v \in StagValues : stagAtonementCost(v) = ClaimedAtonementCost(v)
    /\ \A i \in 1..Len(last.ev) :
          last.ev[i].k = "atoned"
              => last.ev[i].cost = ClaimedAtonementCost(parseCardValue(last.ev[i].card))

AtonedTierTwo ==
    \E i \in 1..Len(last.ev) :
        /\ last.ev[i].k = "atoned"
        /\ parseCardValue(last.ev[i].card) \in 5..8
        /\ last.ev[i].cost = 2
        /\ players[last.ev[i].seat].contributionsMade >= 2

(* The engine awaits a submission: the states in which it calls a handler  *)
(* (a rejection on its way back to the caller holds the same GameState).   *)
Awaiting == pc = "await"

AtonementCase(s, p, c, a) ==
    IF getTerritoryHealingValue(s.players[p]) >= parseCardValue(c)
    THEN a.players = s.players
    ELSE IF s.players[p].contributionsRemaining >= stagAtonementCost(parseCardValue(c))
    THEN /\ a.players[p] =
              [s.players[p] EXCEPT
                  !.contributionsRemaining = @ - stagAtonementCost(parseCardValue(c)),
                  !.contributionsMade = @ + stagAtonementCost(parseCardValue(c))]
         /\ \A q \in Seats \ {p} : a.players[q] = s.players[q]
    ELSE /\ a.players[p].eliminated
         /\ a.players[p].contributionsRemaining = s.players[p].contributionsRemaining
         /\ a.players[p].contributionsMade = s.players[p].contributionsMade

SameOrder(old, new) ==
    \A x, y \in SeqToSet(new) :
        (IndexOf(new, x) < IndexOf(new, y)) <=> (IndexOf(old, x) < IndexOf(old, y))

EliminationCase(s, p, e) ==
    /\ e.players[p].eliminated
    /\ SeqToSet(e.playerOrder) = SeqToSet(s.playerOrder) \ {p}
    /\ IsDistinct(e.playerOrder)
    /\ SameOrder(s.playerOrder, e.playerOrder)
    /\ e.players[p].hand = EmptyBag
    /\ e.discard = s.discard (+) s.players[p].hand
    /\ \A q \in Seats \ {p} : e.players[q] = s.players[q]
    /\ IF s.winner = "null" /\ Cardinality(Alive(s) \ {p}) = 1
       THEN /\ e.winner = PlayerId(CHOOSE q \in Alive(s) \ {p} : TRUE)
            /\ e.winReason = "lastStanding"
       ELSE e.winner = s.winner /\ e.winReason = s.winReason

(* C8: eliminating a player sets eliminated, removes exactly that seat     *)
(* from playerOrder keeping the others' order, moves the whole hand to     *)
(* discard, runs the last-standing check; eliminated never becomes false.  *)
EliminationEffects ==
    /\ [](\A p \in Seats : EliminationCase(GS(0), p, eliminatePlayer(GS(0), p)))
    /\ [][\A p \in Seats : players[p].eliminated => players'[p].eliminated]_vars

EliminatedThisAction ==
    \E i \in 1..Len(last.ev) :
        /\ last.ev[i].k = "eliminated"
        /\ players[last.ev[i].seat].eliminated
        /\ players[last.ev[i].seat].hand = EmptyBag
        /\ last.ev[i].seat \notin SeqToSet(playerOrder)

(* C9: after an action in which a player is eliminated while no winner was *)
(* set: if exactly one player remains, winner is that player and winReason *)
(* is lastStanding; with two or more remaining the check sets nothing.     *)
LastStandingWin ==
    [][(winner = "null" /\ \E p \in Seats : ~players[p].eliminated /\ players'[p].eliminated)
          => IF Cardinality(AliveNow') = 1
             THEN /\ winner' = PlayerId(CHOOSE q \in AliveNow' : TRUE)
                  /\ winReason' = "lastStanding"
             ELSE \A i \in 1..Len(last'.ev) : last'.ev[i].k # "lastStanding"]_vars

Key(pl) ==
    <<getCrownScore(pl), countTerritoryType(pl, "magi"), countTerritoryType(pl, "healing"),
      countTerritoryType(pl, "hunt"), countTerritoryType(pl, "kingscommand")>>

LexGreater(a, b) ==
    \E i \in 1..5 : a[i] > b[i] /\ \A j \in 1..(i - 1) : a[j] = b[j]

ScoringExample ==
    /\ AliveNow = {0, 1}
    /\ Key(players[0])[1] = 8
    /\ Key(players[1])[1] = 6

TithePending == pendingAction.type \in {"titheDiscard", "titheContribute"}

TokensOf(ps) == [p \in Seats |-> <<ps[p].contributionsRemaining, ps[p].contributionsMade>>]

(* handleTitheContribute(contribute = true) at contributionsSoFar = 2. *)
ContributeAtCap(s, r) ==
    /\ r.err = "null"
    /\ TokensOf(r.st.players) = TokensOf(s.players)
    /\ r.st.pendingAction = NoPending
    /\ r.st.turnPhase = "endOfTurn"

CapStep ==
    /\ (last'.op = "playTithe" /\ pendingAction'.type \in {"titheDiscard", "titheContribute"})
           => pendingAction'.contributionsSoFar = 0
    /\ (last'.op = "titheDiscard" /\ pendingAction'.type \in {"titheDiscard", "titheContribute"})
           => pendingAction'.contributionsSoFar = pendingAction.contributionsSoFar
    /\ last'.op = "titheContribute"
           => /\ TokensOf(players') # TokensOf(players)
                    => /\ pendingAction.contributionsSoFar < 2
                       /\ players'[last'.seat].contributionsRemaining
                              = players[last'.seat].contributionsRemaining - 1
                       /\ \A p \in Seats \ {last'.seat} :
                              TokensOf(players')[p] = TokensOf(players)[p]
                       /\ pendingAction'.type \in {"titheDiscard", "titheContribute"}
                              => pendingAction'.contributionsSoFar
                                     = pendingAction.contributionsSoFar + 1
              /\ (TokensOf(players') = TokensOf(players)
                    /\ pendingAction'.type \in {"titheDiscard", "titheContribute"})
                    => pendingAction'.contributionsSoFar = pendingAction.contributionsSoFar

(* C11: within one Tithe resolution the owner pays at most 2               *)
(* contributions: contributionsSoFar starts at 0, grows by one with each   *)
(* token paid, is paid only below 2 and stays in 0..2; a titheContribute   *)
(* with contribute = true at contributionsSoFar = 2 pays nothing and       *)
(* finishes the resolution.                                                *)
TitheContributionCap ==
    /\ [](TithePending => pendingAction.contributionsSoFar \in 0..2)
    /\ [](pendingAction.type = "titheContribute"
            => ContributeAtCap(GS(0),
                   handleTitheContribute(
                       [GS(0) EXCEPT !.pendingAction.contributionsSoFar = 2],
                       pendingAction.playerSeat, TRUE)))
    /\ [][pc' = "await" => CapStep]_vars

SecondContributionPaid ==
    /\ last.op = "titheContribute"
    /\ last.err = "null"
    /\ pendingAction.type = "titheDiscard"
    /\ pendingAction.contributionsSoFar = 2
    /\ players[last.seat].contributionsMade >= 2

TitheOwner(pending) ==
    IF pending.type = "titheDiscard" THEN pending.tithePlayerSeat ELSE pending.playerSeat

TitheCompleted(r) ==
    r.err = "null" /\ r.st.pendingAction = NoPending /\ r.st.turnPhase = "endOfTurn"

TitheDestination(s, r, paid) ==
    TitheCompleted(r) =>
        IF paid
        THEN /\ Has(r.st.players[TitheOwner(s.pendingAction)].territory,
                    s.pendingAction.titheCardId)
             /\ ~Has(r.st.discard, s.pendingAction.titheCardId)
        ELSE /\ Has(r.st.discard, s.pendingAction.titheCardId)
             /\ \A p \in Seats :
                    ~Has(r.st.players[p].territory, s.pendingAction.titheCardId)

(* C12: when a Tithe resolution completes (pendingAction null, turnPhase   *)
(* endOfTurn), the Tithe card is in the territory of the player who played *)
(* it iff that player paid at least one contribution in this resolution,   *)
(* and in the discard pile otherwise: for every seat and every completing  *)
(* titheDiscard or titheContribute.                                        *)
TitheDestinationRule ==
    /\ pendingAction.type = "titheDiscard" =>
          \A rnd \in Rnd :
          \A cardIds \in IdSeqs(HandOf(pendingAction.currentDiscardSeat)) :
              TitheDestination(GS(rnd),
                  handleTitheDiscard(GS(rnd), pendingAction.currentDiscardSeat, cardIds),
                  pendingAction.contributionsSoFar > 0)
    /\ pendingAction.type = "titheContribute" =>
          \A rnd \in Rnd, contribute \in BOOLEAN :
              TitheDestination(GS(rnd),
                  handleTitheContribute(GS(rnd), pendingAction.playerSeat, contribute),
                  \/ pendingAction.contributionsSoFar > 0
                  \/ TokensOf(handleTitheContribute(GS(rnd), pendingAction.playerSeat,
                                                    contribute).st.players)
                         # TokensOf(players))

HuntPending == pendingAction.type \in {"huntResponse", "huntDiscard"}

HuntCounts(player) == 2 + countTerritoryType(player, "kingscommand")

HandSize(player) == BagCardinality(player.hand)

HuntFinished(r) ==
    r.err = "null" /\ r.st.pendingAction = NoPending /\ r.st.turnPhase = "endOfTurn"

DeckRanOut(r) == \E i \in 1..Len(r.st.ev) : r.st.ev[i].k = "deckOut"

(* handlePlayHunt(cardId) by the current player: the counts it records. *)
HuntPlayCase(s, seat, r) ==
    (r.err = "null" /\ ~DeckRanOut(r) /\ r.st.pendingAction.type = "huntResponse")
        => /\ r.st.pendingAction.discardsPerPlayer = HuntCounts(s.players[seat])
           /\ r.st.pendingAction.drawsForHunter = HuntCounts(s.players[seat])

(* The counts stay as recorded while the resolution goes on. *)
HuntCountsCarried(s, r) ==
    (r.err = "null" /\ r.st.pendingAction.type \in {"huntResponse", "huntDiscard"})
        => /\ r.st.pendingAction.discardsPerPlayer = s.pendingAction.discardsPerPlayer
           /\ r.st.pendingAction.drawsForHunter = s.pendingAction.drawsForHunter

(* The hunter's draw when the handler's result r finishes the Hunt. *)
HunterDraw(s, r, averters) ==
    HuntFinished(r) =>
        HandSize(r.st.players[s.pendingAction.huntPlayerSeat])
            = HandSize(s.players[s.pendingAction.huntPlayerSeat])
              + Max(0, s.pendingAction.drawsForHunter - averters)

(* handleHuntDiscard(cardIds) by the awaited seat. *)
HuntDiscardCase(s, seat, cardIds, r) ==
    /\ r.err = "null"
           <=> /\ Len(cardIds) = Min(s.pendingAction.discardsPerPlayer,
                                     HandSize(s.players[seat]))
               /\ IsDistinct(cardIds)
               /\ SeqToSet(cardIds) \subseteq BagToSet(s.players[seat].hand)
    /\ r.err = "null"
           => /\ \/ r.st.players[seat].hand = s.players[seat].hand (-) SeqToBag(cardIds)
                 \/ r.st.players[seat].eliminated
              /\ HunterDraw(s, r, s.pendingAction.averters)
              /\ HuntCountsCarried(s, r)

(* handleHuntResponse(healingId) by the awaited seat. *)
HuntResponseCounts(s, r, averters) ==
    HunterDraw(s, r, averters) /\ HuntCountsCarried(s, r)

(* C14: with k King's Commands in the hunter's territory when the Hunt is  *)
(* played, the Hunt records 2+k discards and draws and keeps them; an      *)
(* opponent who did not avert must discard exactly min(2+k, hand size)     *)
(* distinct cards of their hand, and when the Hunt finishes the hunter     *)
(* draws max(0, 2+k - averters) cards.                                     *)
HuntCountsRule ==
    \A rnd \in Rnd :
        /\ (HasCurrent /\ pendingAction = NoPending)
               => \A cardId \in HandOf(CurrentSeat) :
                      HuntPlayCase(GS(rnd), CurrentSeat,
                                   handlePlayHunt(GS(rnd), CurrentSeat, cardId))
        /\ pendingAction.type = "huntDiscard"
               => \A cardIds \in IdSeqs(HandOf(pendingAction.currentDiscardSeat)
                                         \cup {Foreign("stag")}) :
                      HuntDiscardCase(GS(rnd), pendingAction.currentDiscardSeat, cardIds,
                          handleHuntDiscard(GS(rnd), pendingAction.currentDiscardSeat,
                                            cardIds))
        /\ pendingAction.type = "huntResponse"
               => \A healingId \in {NoCard} \cup HandOf(pendingAction.respondingSeat) :
                      HuntResponseCounts(GS(rnd),
                          handleHuntResponse(GS(rnd), pendingAction.respondingSeat,
                                             healingId, NoCard),
                          pendingAction.averters + 1)

(* One King's Command, one averter: the other opponent has discarded 3 and *)
(* the hunter has drawn 2.                                                 *)
HuntOfThree ==
    /\ last.op = "huntDiscard"
    /\ last.err = "null"
    /\ ~HuntPending
    /\ winner = "null"
    /\ \E p \in Seats :
          /\ Has(players[p].territory, Card("hunt", 5))
          /\ countTerritoryType(players[p], "kingscommand") = 1
    /\ HandSize(players[last.seat]) = 0

(* The seats a Hunt record holds as non-averters: the list being built, or *)
(* the discard queue made from it.                                         *)
NonAverters(pending) ==
    CASE pending.type = "huntResponse" -> pending.nonAverterSeats
      [] pending.type = "huntDiscard" ->
            <<pending.currentDiscardSeat>> \o pending.remainingDiscardSeats
      [] OTHER -> <<>>

RevealedBag(healingId, magiId) ==
    IF healingId = NoCard THEN EmptyBag
    ELSE IF magiId = NoCard THEN One(healingId)
    ELSE One(healingId) (+) One(magiId)

AvertTotal(player, healingId, magiId) ==
    parseCardValue(healingId) + CountType(player.territory, "healing")
    + BagCardinality(player.territoryMagiAsHealing) + (IF magiId # NoCard THEN 6 ELSE 0)

(* An accepted handleHuntResponse(healingId, magiId) by the awaited seat. *)
HuntResponseCase(s, seat, healingId, magiId, r) ==
    r.err = "null" =>
        /\ r.st.players[seat].territory
               = s.players[seat].territory (+) RevealedBag(healingId, magiId)
        /\ r.st.players[seat].hand (+) RevealedBag(healingId, magiId)
               = s.players[seat].hand
        /\ ~DeckRanOut(r) =>
              IF healingId # NoCard
                 /\ AvertTotal(s.players[seat], healingId, magiId)
                        >= s.pendingAction.huntTotalValue
              THEN /\ NonAverters(r.st.pendingAction) = s.pendingAction.nonAverterSeats
                   /\ r.st.pendingAction.type \in {"huntResponse", "huntDiscard"}
                          => r.st.pendingAction.averters = s.pendingAction.averters + 1
              ELSE /\ NonAverters(r.st.pendingAction)
                          = Append(s.pendingAction.nonAverterSeats, seat)
                   /\ r.st.pendingAction.averters = s.pendingAction.averters

(* C15: a huntResponse revealing a Healing card averts iff card value +    *)
(* Healing cards in the responder's territory + Magi-as-Healing in it + 6  *)
(* for a revealed Magi >= huntTotalValue; an avert increments averters,    *)
(* any other response appends the seat to nonAverterSeats; revealed cards  *)
(* move from the hand to the responder's territory in both cases.          *)
HuntAvertRule ==
    pendingAction.type = "huntResponse" =>
        \A rnd \in Rnd :
        \A healingId \in {NoCard} \cup HandOf(pendingAction.respondingSeat),
           magiId \in {NoCard} \cup HandOf(pendingAction.respondingSeat) :
            HuntResponseCase(GS(rnd), pendingAction.respondingSeat, healingId, magiId,
                handleHuntResponse(GS(rnd), pendingAction.respondingSeat,
                                   healingId, magiId))

(* A Healing card that averts only through the Healing cards already in   *)
(* the responder's territory.                                              *)
AvertedAtThreshold ==
    /\ last.op = "huntResponse"
    /\ last.err = "null"
    /\ Has(players[last.seat].territory, Card("healing", 4))
    /\ CountType(players[last.seat].territory, "healing") = 3
    /\ ~HuntPending
    /\ HandSize(players[last.seat]) = 2
    /\ \E p \in Seats : Has(players[p].territory, Card("hunt", 5))

StagsIn(hand) == SelectBag(hand, "stag")

AtonedFor(before, after, stagId) ==
    IF getTerritoryHealingValue(before) >= parseCardValue(stagId)
    THEN /\ after.contributionsRemaining = before.contributionsRemaining
         /\ after.contributionsMade = before.contributionsMade
         /\ ~after.eliminated
    ELSE IF before.contributionsRemaining >= ClaimedAtonementCost(parseCardValue(stagId))
    THEN /\ after.contributionsRemaining
                = before.contributionsRemaining - ClaimedAtonementCost(parseCardValue(stagId))
         /\ after.contributionsMade
                = before.contributionsMade + ClaimedAtonementCost(parseCardValue(stagId))
         /\ ~after.eliminated
    ELSE after.eliminated

(* handlePlayKingsCommand(cardId) by the current player. *)
KingsCommandPlayCase(s, seat, cardId, r) ==
    r.err = "null" =>
        /\ parseCardType(cardId) = "kingscommand"
        /\ r.st.players[seat].territory = s.players[seat].territory (+) One(cardId)
        /\ r.st.players[seat].hand (+) One(cardId) = s.players[seat].hand

(* handleKingCommandResponse(stagId) by the awaited seat. *)
KingCommandResponseCase(s, seat, stagId, r) ==
    /\ r.err = "null"
           <=> IF stagId = NoCard THEN StagsIn(s.players[seat].hand) = {}
               ELSE parseCardType(stagId) = "stag" /\ Has(s.players[seat].hand, stagId)
    /\ (r.err = "null" /\ stagId # NoCard)
           => /\ ~Has(r.st.players[seat].hand, stagId)
              /\ CopiesIn(stagId, r.st.discard) = CopiesIn(stagId, s.discard) + 1
              /\ AtonedFor(s.players[seat], r.st.players[seat], stagId)
              /\ r.st.winner = "null"
                    => /\ r.st.pendingAction.type
                              \in {"kingCommandResponse", "kingCommandCollect"}
                       /\ r.st.pendingAction.discardedStags
                              = Append(s.pendingAction.discardedStags, stagId)
    /\ (r.err = "null" /\ stagId = NoCard)
           => /\ r.st.players = s.players
              /\ r.st.discard = s.discard

(* C16: the King's Command card is in the player's territory as soon as    *)
(* the play is accepted; a kingCommandResponse with stagId = null is       *)
(* accepted only when the hand holds no Stag, one with a stagId only for a *)
(* Stag of the hand, which is discarded, atoned for and appended to        *)
(* discardedStags.                                                         *)
KingsCommandObligation ==
    /\ (HasCurrent /\ pendingAction = NoPending)
           => \A cardId \in HandOf(CurrentSeat) \cup {Foreign("kingscommand")} :
                  KingsCommandPlayCase(GS(0), CurrentSeat, cardId,
                      handlePlayKingsCommand(GS(0), CurrentSeat, cardId))
    /\ pendingAction.type = "kingCommandResponse"
           => \A stagId \in {NoCard} \cup HandOf(pendingAction.respondingSeat)
                            \cup {Foreign("stag")} :
                  KingCommandResponseCase(GS(0), pendingAction.respondingSeat, stagId,
                      handleKingCommandResponse(GS(0), pendingAction.respondingSeat, stagId))

StagGivenToCommand ==
    /\ last.op = "kingCommandResponse"
    /\ last.err = "null"
    /\ pendingAction.type \in {"kingCommandResponse", "kingCommandCollect"}
    /\ Len(pendingAction.discardedStags) > 0
    /\ \A i \in 1..Len(pendingAction.discardedStags) :
          Has(discard, pendingAction.discardedStags[i])
    /\ countTerritoryType(players[pendingAction.commandPlayerSeat], "kingscommand") > 0

(* handleKingCommandCollect(stagIds) by the command player. *)
KingCommandCollectCase(s, seat, stagIds, r) ==
    /\ r.err = "null"
           <=> SeqToSet(stagIds) \subseteq SeqToSet(s.pendingAction.discardedStags)
    /\ r.err = "null"
           => /\ \A c \in SeqToSet(stagIds) :
                    CopiesIn(c, r.st.players[seat].hand) = 1 /\ ~Has(r.st.discard, c)
              /\ \A c \in SeqToSet(s.pendingAction.discardedStags) \ SeqToSet(stagIds) :
                    Has(r.st.discard, c) /\ ~Has(r.st.players[seat].hand, c)
              /\ r.st.pendingAction = NoPending
              /\ r.st.turnPhase = "endOfTurn"

(* C17: kingCommandCollect accepts only a subset of the Stags collected in *)
(* discardedStags; afterwards every selected Stag is in the command        *)
(* player's hand exactly once and not in discard, every unselected one is  *)
(* still in discard, pendingAction is null and turnPhase is endOfTurn.     *)
KingsCommandCollection ==
    pendingAction.type = "kingCommandCollect" =>
        \A stagIds \in IdSeqs(CollectChoices) :
            KingCommandCollectCase(GS(0), pendingAction.commandPlayerSeat, stagIds,
                handleKingCommandCollect(GS(0), pendingAction.commandPlayerSeat, stagIds))

ResolutionExit(st) ==
    st.pendingAction # NoPending
    \/ (st.pendingAction = NoPending /\ st.turnPhase = "endOfTurn")

(* No hand holds a card twice (a repeated id in kingCommandCollect does    *)
(* that) .                                                                 *)
NoCardTwice(st) ==
    \A p \in Seats : \A c \in BagToSet(st.players[p].hand) :
        CopiesIn(c, st.players[p].hand) = 1

EndOfTurnRest(st) ==
    st.turnPhase = "endOfTurn" /\ st.pendingAction = NoPending /\ NoCardTwice(st)

(* autoAdvance takes x, in endOfTurn with nothing pending and seat the     *)
(* active player, to a: a forced discard when the hand is over the limit,  *)
(* else the next seat's turn, refreshed and in its kingdom action (or, if  *)
(* gameOver is allowed, ended by deck exhaustion during the refresh).      *)
EndOfTurnCase(x, a, seat, gameOver) ==
    IF BagCardinality(x.players[seat].hand) > getHandLimit(x.players[seat])
    THEN /\ a.pendingAction =
                [type |-> "discardToHandLimit", playerSeat |-> seat,
                 mustDiscard |-> BagCardinality(x.players[seat].hand)
                                 - getHandLimit(x.players[seat])]
         /\ a.currentPlayerIndex = x.currentPlayerIndex
         /\ a.turnPhase = "endOfTurn"
         /\ a.winner = "null"
    ELSE /\ a.currentPlayerIndex = (x.currentPlayerIndex + 1) % Len(x.playerOrder)
         /\ a.pendingAction = NoPending
         /\ \/ /\ a.turnPhase = "kingdomAction"
               /\ a.winner = "null"
               /\ BagCardinality(a.kingdom) >= 3
            \/ /\ gameOver
               /\ a.turnPhase = "refreshKingdom"
               /\ a.winner # "null"
               /\ a.winReason = "deckOut"

EndOfTurnAdvance(x, gameOver) ==
    (/\ x.turnPhase = "endOfTurn"
     /\ x.pendingAction = NoPending
     /\ x.winner = "null"
     /\ Len(x.playerOrder) > 0)
        => EndOfTurnCase(FixIndex(x), autoAdvance(x), getCurrentPlayer(FixIndex(x)),
                         gameOver)

(* a is waiting for a living player's input. *)
RestsOnInput(a) ==
    (a.winner = "null" /\ Len(a.playerOrder) > 0)
        => \/ a.pendingAction # NoPending
           \/ a.turnPhase \in {"kingdomAction", "territoryAction"}

(* st with its active player eliminated: the index may now be past the    *)
(* end of playerOrder.                                                     *)
ActiveEliminated(st) ==
    IF st.currentPlayerIndex < Len(st.playerOrder)
    THEN eliminatePlayer(st, getCurrentPlayer(st))
    ELSE st

NobodyLeft(st) == [st EXCEPT !.playerOrder = <<>>]

AutoAdvanceRests(st) ==
    /\ RestsOnInput(autoAdvance(st))
    /\ RestsOnInput(autoAdvance(ActiveEliminated(st)))
    /\ autoAdvance(NobodyLeft(st)) = NobodyLeft(st)

(* What is asked of the state st an accepted handler call leaves. *)
ExitHolds(kind, st) ==
    CASE kind = "exit" -> ResolutionExit(st)
      [] kind = "exitOrGameOver" -> ResolutionExit(st) \/ st.winner # "null"
      [] kind = "restsOnInput" -> AutoAdvanceRests(st)
      [] kind = "turnPasses" -> EndOfTurnAdvance(st, FALSE)
      [] kind = "turnPassesOrDeckOut" -> EndOfTurnAdvance(st, TRUE)
      [] kind = "nothingOffered" ->
            EndOfTurnRest(st)
                => \A p \in Seats : computeAvailableActions(st, p) = <<>>
      [] kind = "discardOffered" ->
            EndOfTurnRest(st)
                => \A p \in Seats :
                       computeAvailableActions(st, p) =
                           IF /\ st.winner = "null"
                              /\ IsMyTurn(st, p)
                              /\ BagCardinality(st.players[p].hand)
                                     > getHandLimit(st.players[p])
                           THEN <<"discardToHandLimit">>
                           ELSE <<>>

Accepted(kind, r) == r.err = "null" => ExitHolds(kind, r.st)

(* Every call of a Hunt, Tithe or King's Command handler this state        *)
(* admits, with every input of the seat the handler waits for.             *)
AfterSubEngine(kind) ==
    Awaiting => \A rnd \in Rnd :
        /\ (HasCurrent /\ pendingAction = NoPending)
               => \A c \in HandOf(CurrentSeat) :
                      /\ Accepted(kind, handlePlayHunt(GS(rnd), CurrentSeat, c))
                      /\ Accepted(kind, handlePlayTithe(GS(rnd), CurrentSeat, c))
                      /\ Accepted(kind, handlePlayKingsCommand(GS(rnd), CurrentSeat, c))
        /\ pendingAction.type = "huntResponse"
               => \A h, m \in {NoCard} \cup HandOf(pendingAction.respondingSeat) :
                      Accepted(kind, handleHuntResponse(GS(rnd),
                                         pendingAction.respondingSeat, h, m))
        /\ pendingAction.type = "huntDiscard"
               => \A q \in IdSeqs(HandOf(pendingAction.currentDiscardSeat)) :
                      Accepted(kind, handleHuntDiscard(GS(rnd),
                                         pendingAction.currentDiscardSeat, q))
        /\ pendingAction.type = "titheDiscard"
               => \A q \in IdSeqs(HandOf(pendingAction.currentDiscardSeat)) :
                      Accepted(kind, handleTitheDiscard(GS(rnd),
                                         pendingAction.currentDiscardSeat, q))
        /\ pendingAction.type = "titheContribute"
               => \A b \in BOOLEAN :
                      Accepted(kind, handleTitheContribute(GS(rnd),
                                         pendingAction.playerSeat, b))
        /\ pendingAction.type = "kingCommandResponse"
               => \A c \in {NoCard} \cup HandOf(pendingAction.respondingSeat) :
                      Accepted(kind, handleKingCommandResponse(GS(rnd),
                                         pendingAction.respondingSeat, c))
        /\ pendingAction.type = "kingCommandCollect"
               => \A q \in IdSeqs(CollectChoices) :
                      Accepted(kind, handleKingCommandCollect(GS(rnd),
                                         pendingAction.commandPlayerSeat, q))

(* C18: after every accepted action handled by a Hunt, Tithe or King's     *)
(* Command handler, either pendingAction is non-null or pendingAction is   *)
(* null and turnPhase is endOfTurn.                                        *)
SubEngineExitContract == AfterSubEngine("exit")

(* C18, amended: after every accepted action handled by a Hunt, Tithe or   *)
(* King's Command handler, either pendingAction is non-null, or it is null *)
(* and turnPhase is endOfTurn, or the game has ended (winner is set).      *)
SubEngineExitOrGameOver == AfterSubEngine("exitOrGameOver")

(* A sub-engine action that ended the game and left no pending action in   *)
(* the territory phase.                                                    *)
GameEndedInSubEngine ==
    /\ last.op \in {"playHunt", "playTithe", "kingCommandResponse"}
    /\ last.err = "null"
    /\ winner # "null"
    /\ pendingAction = NoPending
    /\ turnPhase = "territoryAction"

(* The seat a pending record waits for. *)
AwaitedSeat(pending) ==
    CASE pending.type \in {"huntResponse", "kingCommandResponse"} -> pending.respondingSeat
      [] pending.type \in {"huntDiscard", "titheDiscard"} -> pending.currentDiscardSeat
      [] pending.type \in {"titheContribute", "discardToHandLimit"} -> pending.playerSeat
      [] pending.type = "kingCommandCollect" -> pending.commandPlayerSeat

(* C19: computeAvailableActions returns the empty list for every player    *)
(* when winner is set; when a pendingAction exists it returns exactly the  *)
(* one response action of that variant for the player whose seat is the    *)
(* variant's awaited seat, and the empty list for every other player.      *)
AvailableActionsContract ==
    \A p \in Seats :
        /\ winner # "null" => computeAvailableActions(GS(0), p) = <<>>
        /\ (winner = "null" /\ pendingAction # NoPending)
               => computeAvailableActions(GS(0), p)
                      = IF p = AwaitedSeat(pendingAction) THEN <<pendingAction.type>>
                        ELSE <<>>

ResponderOffered ==
    /\ winner = "null"
    /\ pendingAction.type = "huntResponse"
    /\ pendingAction.respondingSeat # CurrentSeat
    /\ computeAvailableActions(GS(0), pendingAction.respondingSeat) = <<"huntResponse">>
    /\ computeAvailableActions(GS(0), CurrentSeat) = <<>>

Turned(r, s) == r.err # "null" /\ r.st = s

(* C21: while a huntResponse, huntDiscard, titheDiscard, titheContribute,  *)
(* kingCommandResponse or kingCommandCollect is pending, a response of     *)
(* that kind submitted by any seat other than the awaited one is rejected, *)
(* whatever cards it names, and the state is left as it was.               *)
WrongSeatRejected ==
    Awaiting => \A seat \in Seats :
        /\ (pendingAction.type = "huntResponse" /\ seat # pendingAction.respondingSeat)
               => \A h, m \in {NoCard} \cup HandOf(seat) :
                      Turned(handleHuntResponse(GS(0), seat, h, m), GS(0))
        /\ (pendingAction.type = "huntDiscard" /\ seat # pendingAction.currentDiscardSeat)
               => \A q \in IdSeqs(HandOf(seat)) :
                      Turned(handleHuntDiscard(GS(0), seat, q), GS(0))
        /\ (pendingAction.type = "titheDiscard" /\ seat # pendingAction.currentDiscardSeat)
               => \A q \in IdSeqs(HandOf(seat)) :
                      Turned(handleTitheDiscard(GS(0), seat, q), GS(0))
        /\ (pendingAction.type = "titheContribute" /\ seat # pendingAction.playerSeat)
               => \A b \in BOOLEAN :
                      Turned(handleTitheContribute(GS(0), seat, b), GS(0))
        /\ (pendingAction.type = "kingCommandResponse" /\ seat # pendingAction.respondingSeat)
               => \A c \in {NoCard} \cup HandOf(seat) :
                      Turned(handleKingCommandResponse(GS(0), seat, c), GS(0))
        /\ (pendingAction.type = "kingCommandCollect"
            /\ seat # pendingAction.commandPlayerSeat)
               => \A q \in IdSeqs(CollectChoices) :
                      Turned(handleKingCommandCollect(GS(0), seat, q), GS(0))

(* A seat other than the commander has asked to collect and was refused. *)
WrongSeatCollect ==
    /\ pc = "rejected"
    /\ last.op = "kingCommandCollect"
    /\ last.err = "Not your turn to collect"
    /\ pendingAction.type = "kingCommandCollect"
    /\ last.seat # pendingAction.commandPlayerSeat

(* C22: while a pendingAction exists (and no winner is set), drawCard and  *)
(* the playing of a Hunt, a Tithe or a King's Command by the current       *)
(* player are rejected, whatever card of their hand is named.              *)
PendingExcludesTurnActions ==
    (HasCurrent /\ winner = "null" /\ pendingAction # NoPending)
        => /\ handleDrawCard(GS(0), CurrentSeat).err # "null"
           /\ \A c \in HandOf(CurrentSeat) :
                 /\ handlePlayHunt(GS(0), CurrentSeat, c).err # "null"
                 /\ handlePlayTithe(GS(0), CurrentSeat, c).err # "null"
                 /\ handlePlayKingsCommand(GS(0), CurrentSeat, c).err # "null"

TokenTotal(player) == player.contributionsRemaining + player.contributionsMade

(* C23: every player always has contributionsRemaining >= 0 and            *)
(* contributionsRemaining + contributionsMade equal to the tokens they     *)
(* started with, and no action lowers a player's contributionsMade.        *)
TokenAccounting ==
    /\ [](\A p \in Seats : /\ players[p].contributionsRemaining >= 0
                           /\ TokenTotal(players[p]) = StartTokens)
    /\ [][\A p \in Seats :
              /\ players'[p].contributionsMade >= players[p].contributionsMade
              /\ TokenTotal(players'[p]) = TokenTotal(players[p])]_vars

(* A Tithe player has paid both contributions out of twelve tokens. *)
TwoTokensContributed ==
    /\ last.op = "titheContribute"
    /\ last.err = "null"
    /\ players[last.seat].contributionsRemaining = StartTokens - 2
    /\ players[last.seat].contributionsMade = 2

PhaseEvents(ev) == SelectSeq(ev, LAMBDA e : e.k = "phase")

NextPhase(ph) ==
    CASE ph = "refreshKingdom" -> "kingdomAction"
      [] ph = "kingdomAction" -> "territoryAction"
      [] ph = "territoryAction" -> "endOfTurn"
      [] OTHER -> "refreshKingdom"

(* The values turnPhase takes through one action: the value before it,     *)
(* then the value of each assignment the action makes, in order.           *)
PhasePath(before, ev) ==
    <<before>> \o [i \in 1..Len(PhaseEvents(ev)) |-> PhaseEvents(ev)[i].to]

AlongCycle(path) ==
    \A i \in 1..(Len(path) - 1) : path[i + 1] \in {path[i], NextPhase(path[i])}

TurnStarts(ev) == SelectSeq(PhaseEvents(ev), LAMBDA e : e.to = "refreshKingdom")

SameBoard(a, w) ==
    /\ a.deck = w.deck
    /\ a.discard = w.discard
    /\ a.burned = w.burned
    /\ a.kingdom = w.kingdom
    /\ a.players = w.players
    /\ a.turnPhase = w.turnPhase
    /\ a.pendingAction \in {w.pendingAction, NoPending}

(* w is the state right after the handler's atonement step, r its result. *)
StopCase(r, w) == (r.err = "null" /\ w.winner # "null") => SameBoard(r.st, w)

(* C26: when the atonement step of huntDiscard, titheDiscard or            *)
(* kingCommandResponse eliminates a player and thereby sets winner, the    *)
(* state the handler returns has the zones, hands, territories, turnPhase  *)
(* and responder queue of the state right after that step.                 *)
StopOnWin ==
    winner = "null" =>
        \A rnd \in Rnd :
            /\ pendingAction.type = "huntDiscard"
                   => \A q \in IdSeqs(HandOf(pendingAction.currentDiscardSeat)) :
                          StopCase(handleHuntDiscard(GS(rnd),
                                       pendingAction.currentDiscardSeat, q),
                                   DiscardLoop(GS(rnd), pendingAction.currentDiscardSeat, q))
            /\ pendingAction.type = "titheDiscard"
                   => \A q \in IdSeqs(HandOf(pendingAction.currentDiscardSeat)) :
                          StopCase(handleTitheDiscard(GS(rnd),
                                       pendingAction.currentDiscardSeat, q),
                                   DiscardLoop(GS(rnd), pendingAction.currentDiscardSeat, q))
            /\ pendingAction.type = "kingCommandResponse"
                   => \A c \in HandOf(pendingAction.respondingSeat) :
                          StopCase(handleKingCommandResponse(GS(rnd),
                                       pendingAction.respondingSeat, c),
                                   applyAtonement(
                                       discardFromHand(GS(rnd),
                                           pendingAction.respondingSeat, c),
                                       pendingAction.respondingSeat, c))

(* C27: while the game is on, a pending huntDiscard, titheDiscard or       *)
(* kingCommandResponse never awaits an eliminated seat, and a pending      *)
(* huntDiscard or titheDiscard never awaits a seat whose hand is empty.    *)
SkippedSeats ==
    winner = "null" =>
        /\ pendingAction.type \in {"huntDiscard", "titheDiscard"}
               => /\ ~players[pendingAction.currentDiscardSeat].eliminated
                  /\ players[pendingAction.currentDiscardSeat].hand # EmptyBag
        /\ pendingAction.type = "kingCommandResponse"
               => ~players[pendingAction.respondingSeat].eliminated

(* C28: autoAdvance returns for every state a handler can hand it, also    *)
(* with an empty playerOrder (which it leaves as it is) and with the       *)
(* active player just eliminated; whenever it returns with winner unset    *)
(* and playerOrder non-empty, pendingAction is non-null or turnPhase is    *)
(* kingdomAction or territoryAction, and so is every state between         *)
(* actions.                                                                *)
AutoAdvanceTerminates ==
    /\ RestsOnInput(GS(0))
    /\ Awaiting => AutoAdvanceRests(GS(0))
    /\ AfterSubEngine("restsOnInput")

(* A turn has passed in a game that has lost a player: the phase          *)
(* controller has come to rest in the next living seat's kingdom action.   *)
RestsAfterElimination ==
    /\ last.err = "null"
    /\ winner = "null"
    /\ players[1].eliminated
    /\ Len(playerOrder) = 2
    /\ Len(TurnStarts(last.ev)) = 1
    /\ pendingAction = NoPending
    /\ turnPhase = "kingdomAction"

(* What a zone call has added to each destination: card is the card a     *)
(* draw returned (NoCard for a burn or a deal).                            *)
Gained(s, st, card) ==
    [hand |-> IF card = NoCard THEN EmptyBag ELSE One(card),
     burned |-> st.burned (-) s.burned,
     kingdom |-> st.kingdom (-) s.kingdom]

Expected(dest, z) ==
    (IF z = dest THEN 1 ELSE 0) + (IF z = "burned" THEN 1 ELSE 0)

(* The zone call took s to st and reported ok, with gains g, for the       *)
(* destination dest.  loneFails: a discard pile of one card under an empty *)
(* deck is reshuffled and burned, and the call fails.                      *)
ZoneDrawCase(s, st, ok, g, dest, loneFails) ==
    /\ st.players = s.players
    /\ s.burned \sqsubseteq st.burned
    /\ s.kingdom \sqsubseteq st.kingdom
    /\ IF Len(s.deck) > 0
       THEN /\ ok
            /\ st.deck = Pop(s.deck)
            /\ st.discard = s.discard
            /\ g[dest] = One(Top(s.deck))
            /\ \A z \in {"hand", "burned", "kingdom"} \ {dest} : g[z] = EmptyBag
       ELSE IF s.discard = EmptyBag
       THEN ~ok /\ st = s
       ELSE IF loneFails /\ BagCardinality(s.discard) = 1
       THEN /\ ~ok
            /\ st.deck = <<>>
            /\ st.discard = EmptyBag
            /\ g = [hand |-> EmptyBag, burned |-> s.discard, kingdom |-> EmptyBag]
       ELSE /\ ok
            /\ st.discard = EmptyBag
            /\ SeqToBag(st.deck) (+) g.hand (+) g.burned (+) g.kingdom = s.discard
            /\ \A z \in {"hand", "burned", "kingdom"} :
                   BagCardinality(g[z]) = Expected(dest, z)

DrawCase(s, d, loneFails) ==
    ZoneDrawCase(s, d.st, d.card # NoCard, Gained(s, d.st, d.card), "hand", loneFails)

BurnCase(s, b, loneFails) ==
    ZoneDrawCase(s, b.st, b.ok, Gained(s, b.st, NoCard), "burned", loneFails)

DealCase(s, k, loneFails) ==
    ZoneDrawCase(s, k.st, k.ok, Gained(s, k.st, NoCard), "kingdom", loneFails)

ZoneDraws(loneFails) ==
    Awaiting => \A rnd \in Rnd :
        /\ DrawCase(GS(rnd), drawCard(GS(rnd)), loneFails)
        /\ BurnCase(GS(rnd), burnCard(GS(rnd)), loneFails)
        /\ DealCase(GS(rnd), dealToKingdom(GS(rnd)), loneFails)

(* C29: drawCard, burnCard and dealToKingdom move exactly the top card of  *)
(* a non-empty deck to their destination; with an empty deck and a         *)
(* non-empty discard the whole discard becomes the deck, one card of it is *)
(* burned and the call then moves one more; they fail, changing nothing,   *)
(* only when deck and discard are both empty.                              *)
ZoneDrawRule == ZoneDraws(FALSE)

(* C29, amended: as C29, except that the calls also fail when the deck is  *)
(* empty and the discard holds exactly one card: that card is reshuffled   *)
(* and burned, which leaves nothing to move.                               *)
ZoneDrawRuleLoneDiscard == ZoneDraws(TRUE)

(* A Tithe draw met an empty deck and a discard pile of one card: the card *)
(* was burned and the deck ran out.                                        *)
LoneDiscardBurned ==
    /\ last.op = "titheDiscard"
    /\ last.err = "null"
    /\ winReason = "deckOut"
    /\ deck = <<>>
    /\ discard = EmptyBag
    /\ Has(burned, Card("hunt", 5))

InPlay(s) == SeqToBag(s.deck) (+) s.discard (+) s.kingdom

(* refreshKingdom took s, whose kingdom holds fewer than 3 cards, to r.    *)
(* With four cards or more in the deck nothing is reshuffled: the old      *)
(* kingdom is in the discard, the top card is burned and the next three    *)
(* are the kingdom.  With fewer the discard (old kingdom included) goes    *)
(* through the deck once, which burns one card more.                       *)
RefreshCase(s, r) ==
    /\ r.st.players = s.players
    /\ s.burned \sqsubseteq r.st.burned
    /\ InPlay(r.st) (+) (r.st.burned (-) s.burned) = InPlay(s)
    /\ IF r.ok
       THEN /\ BagCardinality(r.st.kingdom) = 3
            /\ r.st.winner = s.winner
            /\ IF Len(s.deck) >= 4
               THEN /\ r.st.discard = s.discard (+) s.kingdom
                    /\ r.st.burned = s.burned (+) One(Top(s.deck))
                    /\ r.st.kingdom = SeqToBag(SubSeq(s.deck, Len(s.deck) - 3,
                                                      Len(s.deck) - 1))
                    /\ r.st.deck = SubSeq(s.deck, 1, Len(s.deck) - 4)
               ELSE /\ r.st.discard = EmptyBag
                    /\ BagCardinality(r.st.burned (-) s.burned) = 2
       ELSE /\ BagCardinality(r.st.kingdom) < 3
            /\ r.st.deck = <<>>
            /\ r.st.discard = EmptyBag
            /\ r.st.winner # "null"
            /\ s.winner = "null" => r.st.winReason = "deckOut"

(* C30: refreshKingdom leaves the state unchanged when the kingdom holds   *)
(* 3 or more cards; otherwise the cards of the kingdom go to the discard,  *)
(* one card is burned and the kingdom ends with exactly 3 newly dealt      *)
(* cards (each zone call reshuffling as the draw rule says), unless a burn *)
(* or deal cannot be satisfied, and then deck exhaustion sets the winner.  *)
RefreshKingdomRule ==
    Awaiting => \A rnd \in Rnd :
        IF BagCardinality(kingdom) >= 3
        THEN refreshKingdom(GS(rnd)) = [ok |-> TRUE, st |-> GS(rnd)]
        ELSE RefreshCase(GS(rnd), refreshKingdom(GS(rnd)))

(* A turn has passed with two cards left in the kingdom: they are in the   *)
(* discard and three new cards have been dealt.                            *)
KingdomRedealt ==
    /\ last.err = "null"
    /\ winner = "null"
    /\ Len(TurnStarts(last.ev)) = 1
    /\ turnPhase = "kingdomAction"
    /\ BagCardinality(kingdom) = 3
    /\ Has(discard, Card("healing", 3))
    /\ Has(discard, Card("healing", 5))
    /\ ~Has(kingdom, Card("healing", 6))

ClaimedHealingValue(player) ==
    CountType(player.territory, "healing") + BagCardinality(player.territoryMagiAsHealing)

(* C31: the territory Healing value that applyAtonement compares with a    *)
(* Stag's value is the number of Healing cards in the territory plus 1 for *)
(* each Magi-as-Healing there: getTerritoryHealingValue returns that       *)
(* number, and a living player's atonement for a Stag of value v is waived *)
(* exactly when that number is at least v.                                 *)
HealingValueRule ==
    Awaiting
        => \A p \in Seats :
               /\ getTerritoryHealingValue(players[p]) = ClaimedHealingValue(players[p])
               /\ ~players[p].eliminated
                      => \A v \in StagValues :
                             (applyAtonement(GS(0), p, Card("stag", v)).players = players)
                                 <=> ClaimedHealingValue(players[p]) >= v

ClaimedHandLimit(player) ==
    5 + Cardinality({c \in BagToSet(player.territory) :
                        /\ parseCardType(c) = "magi"
                        /\ ~Has(player.territoryMagiAsHealing, c)})

EnteredTerritory(before, after) ==
    {c \in BagToSet(after.territory) : ~Has(before.territory, c)}

HandGainedOne(s, st, seat) ==
    /\ s.players[seat].hand \sqsubseteq st.players[seat].hand
    /\ BagCardinality(st.players[seat].hand) = BagCardinality(s.players[seat].hand) + 1
    /\ st.players = [s.players EXCEPT ![seat].hand = st.players[seat].hand]

(* handleDrawCard took s to r for the player in seat. *)
DrawCardCase(s, seat, r) ==
    IF s.turnPhase # "kingdomAction" THEN Turned(r, s)
    ELSE /\ r.err = "null"
         /\ r.st.pendingAction = s.pendingAction
         /\ r.st.currentPlayerIndex = s.currentPlayerIndex
         /\ IF r.st.turnPhase = "territoryAction"
            THEN /\ HandGainedOne(s, r.st, seat)
                 /\ s.kingdom \sqsubseteq r.st.kingdom
                 /\ BagCardinality(r.st.kingdom) = BagCardinality(s.kingdom) + 1
                 /\ r.st.winner = s.winner
                 /\ Len(s.deck) >= 1
                        => r.st.players[seat].hand
                               = s.players[seat].hand (+) One(Top(s.deck))
                 /\ Len(s.deck) >= 2
                        => /\ r.st.kingdom = s.kingdom (+) One(Top(Pop(s.deck)))
                           /\ r.st.deck = Pop(Pop(s.deck))
                           /\ r.st.discard = s.discard
                           /\ r.st.burned = s.burned
            ELSE /\ r.st.turnPhase = "kingdomAction"
                 /\ r.st.winner # "null"
                 /\ s.winner = "null" => r.st.winReason = "deckOut"
                 /\ r.st.deck = <<>>
                 /\ r.st.discard = EmptyBag
                 /\ r.st.kingdom = s.kingdom
                 /\ r.st.players = s.players \/ HandGainedOne(s, r.st, seat)

Clock(h, q) == (q - h) % Cardinality(Seats)

LivingOpponents(st, h) == {q \in Seats \ {h} : ~st.players[q].eliminated}

(* The living opponents of h, nearest clockwise neighbour first. *)
ClockwiseAfter(st, h) ==
    [i \in 1..Cardinality(LivingOpponents(st, h)) |->
        CHOOSE q \in LivingOpponents(st, h) :
            Cardinality({x \in LivingOpponents(st, h) : Clock(h, x) < Clock(h, q)}) = i - 1]

InClockwiseOrder(h, q) ==
    \A i, j \in 1..Len(q) : i < j => Clock(h, q[i]) < Clock(h, q[j])

Responses(pending) == pending.averters + Len(pending.nonAverterSeats)

ToDiscard(pending) == <<pending.currentDiscardSeat>> \o pending.remainingDiscardSeats

(* A huntResponse record with opp the opponents living at the play: the    *)
(* seats before the awaited one have answered, the rest wait in order.     *)
HuntResponsePosition(pending, opp) ==
    /\ Responses(pending) + 1 + Len(pending.remainingResponderSeats) = Len(opp)
    /\ <<pending.respondingSeat>> \o pending.remainingResponderSeats
           = SubSeq(opp, Responses(pending) + 1, Len(opp))
    /\ SeqToSet(pending.nonAverterSeats)
           \subseteq SeqToSet(SubSeq(opp, 1, Responses(pending)))
    /\ InClockwiseOrder(pending.huntPlayerSeat, pending.nonAverterSeats)

(* The state s with a Hunt card in the hand of seat that the deal left in  *)
(* the burned pile.                                                        *)
HoldingHunt(s, seat) ==
    [s EXCEPT !.burned = @ (-) One(Foreign("hunt")),
              !.players[seat].hand = @ (+) One(Foreign("hunt"))]

(* handlePlayHunt by seat took s to r. *)
HuntOpenCase(s, seat, r) ==
    (r.err = "null" /\ ~DeckRanOut(r))
        => IF ClockwiseAfter(s, seat) = <<>> THEN HuntFinished(r)
           ELSE /\ r.st.pendingAction.type = "huntResponse"
                /\ r.st.pendingAction.huntPlayerSeat = seat
                /\ <<r.st.pendingAction.respondingSeat>>
                       \o r.st.pendingAction.remainingResponderSeats
                       = ClockwiseAfter(s, seat)
                /\ r.st.pendingAction.averters = 0
                /\ r.st.pendingAction.nonAverterSeats = <<>>

(* handleHuntResponse by the awaited seat took s, with record p, to r. *)
HuntResponseStep(p, seat, r) ==
    r.err = "null"
        => IF p.remainingResponderSeats # <<>>
           THEN /\ r.st.pendingAction.type = "huntResponse"
                /\ r.st.pendingAction.respondingSeat = Head(p.remainingResponderSeats)
                /\ r.st.pendingAction.remainingResponderSeats
                       = Tail(p.remainingResponderSeats)
                /\ r.st.pendingAction.averters \in {p.averters, p.averters + 1}
                /\ Responses(r.st.pendingAction) = Responses(p) + 1
                /\ r.st.pendingAction.nonAverterSeats
                       \in {p.nonAverterSeats, Append(p.nonAverterSeats, seat)}
           ELSE \/ DeckRanOut(r)
                \/ HuntFinished(r) /\ p.nonAverterSeats = <<>>
                \/ /\ r.st.pendingAction.type = "huntDiscard"
                   /\ ToDiscard(r.st.pendingAction)
                          \in {p.nonAverterSeats, Append(p.nonAverterSeats, seat)}
                   /\ r.st.pendingAction.averters + Len(ToDiscard(r.st.pendingAction))
                          = Responses(p) + 1

(* handleHuntDiscard by the awaited seat took s, with record p, to r. *)
HuntDiscardStep(p, r) ==
    r.err = "null"
        => IF p.remainingDiscardSeats # <<>>
           THEN r.st.pendingAction =
                    [p EXCEPT !.currentDiscardSeat = Head(p.remainingDiscardSeats),
                              !.remainingDiscardSeats = Tail(p.remainingDiscardSeats)]
           ELSE DeckRanOut(r) \/ HuntFinished(r)

(* C34: a Hunt awaits the opponents living at its play one after the       *)
(* other, clockwise from the hunter, each once; averters plus the number   *)
(* of nonAverterSeats is the number of responses received; the discards    *)
(* start only with the last response and the non-averters discard in that  *)
(* same order.  The play is also tried with a Hunt card dealt to whichever *)
(* seat is the active one.                                                 *)
HuntResponseProtocol ==
    /\ pendingAction.type = "huntResponse"
           => HuntResponsePosition(pendingAction,
                                   ClockwiseAfter(GS(0), pendingAction.huntPlayerSeat))
    /\ pendingAction.type = "huntDiscard"
           => InClockwiseOrder(pendingAction.huntPlayerSeat, ToDiscard(pendingAction))
    /\ Awaiting => \A rnd \in Rnd :
        /\ HasCurrent
               => \A c \in HandOf(CurrentSeat) :
                      HuntOpenCase(GS(rnd), CurrentSeat,
                                   handlePlayHunt(GS(rnd), CurrentSeat, c))
        /\ (HasCurrent /\ Has(burned, Foreign("hunt")))
               => HuntOpenCase(HoldingHunt(GS(rnd), CurrentSeat), CurrentSeat,
                      handlePlayHunt(HoldingHunt(GS(rnd), CurrentSeat), CurrentSeat,
                                     Foreign("hunt")))
        /\ pendingAction.type = "huntResponse"
               => \A h, m \in {NoCard} \cup HandOf(pendingAction.respondingSeat) :
                      HuntResponseStep(pendingAction, pendingAction.respondingSeat,
                          handleHuntResponse(GS(rnd), pendingAction.respondingSeat, h, m))
        /\ pendingAction.type = "huntDiscard"
               => \A q \in IdSeqs(HandOf(pendingAction.currentDiscardSeat)) :
                      HuntDiscardStep(pendingAction,
                          handleHuntDiscard(GS(rnd), pendingAction.currentDiscardSeat, q))

(* Both opponents of a three-player Hunt have answered, the first averting *)
(* and the second not: the second is the one awaited to discard.           *)
SecondResponderDiscards ==
    /\ last.op = "huntResponse"
    /\ last.err = "null"
    /\ pendingAction.type = "huntDiscard"
    /\ pendingAction.huntPlayerSeat = 0
    /\ pendingAction.averters = 1
    /\ ToDiscard(pendingAction) = <<2>>
    /\ last.seat = 2

(* The engine waits for the active player's kingdom action. *)
AwaitsKingdomAction ==
    /\ Awaiting
    /\ turnPhase = "kingdomAction"
    /\ pendingAction = NoPending
    /\ winner = "null"

PublicPlayerInfoWithHand(s, p, seat) ==
    [seatIndex |-> p,
     handCount |-> s.players[p].hand,
     territory |-> s.players[p].territory,
     territoryMagiAsHealing |-> s.players[p].territoryMagiAsHealing,
     contributionsRemaining |-> s.players[p].contributionsRemaining,
     contributionsMade |-> s.players[p].contributionsMade,
     ante |-> s.players[p].ante,
     eliminated |-> s.players[p].eliminated,
     isMe |-> p = seat]

PublicPlayerInfo(s, p, seat) ==
    [seatIndex |-> p,
     handCount |-> BagCardinality(s.players[p].hand),
     territory |-> s.players[p].territory,
     territoryMagiAsHealing |-> s.players[p].territoryMagiAsHealing,
     contributionsRemaining |-> s.players[p].contributionsRemaining,
     contributionsMade |-> s.players[p].contributionsMade,
     ante |-> s.players[p].ante,
     eliminated |-> s.players[p].eliminated,
     isMe |-> p = seat]

(* currentPlayer.name of a seat that playerOrder does not hold throws. *)
ViewThrew == [threw |-> "TypeError"]

buildPlayerView(s, seat) ==
    IF ~(s.currentPlayerIndex < Len(s.playerOrder)) THEN ViewThrew
    ELSE [mySeat |-> seat,
          myHand |-> s.players[seat].hand,
          myTerritory |-> s.players[seat].territory,
          myTerritoryMagiAsHealing |-> s.players[seat].territoryMagiAsHealing,
          myContributionsRemaining |-> s.players[seat].contributionsRemaining,
          myContributionsMade |-> s.players[seat].contributionsMade,
          myAnte |-> s.players[seat].ante,
          myHandLimit |-> getHandLimit(s.players[seat]),
          myEliminated |-> s.players[seat].eliminated,
          players |-> [p \in Seats |-> PublicPlayerInfo(s, p, seat)],
          kingdom |-> s.kingdom,
          discardPile |-> s.discard,
          deckCount |-> Len(s.deck),
          burnedCount |-> BagCardinality(s.burned),
          currentPlayerSeat |-> getCurrentPlayer(s),
          isMyTurn |-> getCurrentPlayer(s) = seat,
          turnPhase |-> s.turnPhase,
          pendingAction |-> s.pendingAction,
          availableActions |-> computeAvailableActions(s, seat),
          log |-> Min(s.log, 50),
          winner |-> s.winner,
          winReason |-> s.winReason]

(***************************************************************************)
(* States that differ from s only in what the viewer may not see: the      *)
(* contents of the other hands and the order and contents of the deck,     *)
(* with every size kept.                                                   *)
(***************************************************************************)
ForeignCards == {Foreign(t) : t \in {"stag", "hunt", "healing", "magi", "tithe", "kingscommand"}}

OtherSeats(seat) == Seats \ {seat}

DeckSwapped(s, i, j) ==
    [s EXCEPT !.deck = [@ EXCEPT ![i] = s.deck[j], ![j] = s.deck[i]]]

DeckCardReplaced(s, i, f) == [s EXCEPT !.deck[i] = f]

HandCardReplaced(s, q, c, f) ==
    [s EXCEPT !.players[q].hand = (@ (-) One(c)) (+) One(f)]

HandCardForDeck(s, q, c, i) ==
    [s EXCEPT !.players[q].hand = (@ (-) One(c)) (+) One(s.deck[i]), !.deck[i] = c]

HandCardForHand(s, q, c, r, d) ==
    [s EXCEPT !.players[q].hand = (@ (-) One(c)) (+) One(d),
              !.players[r].hand = (@ (-) One(d)) (+) One(c)]

HiddenVariants(s, seat) ==
    {DeckSwapped(s, i, j) : i, j \in 1..Len(s.deck)}
    \cup {DeckCardReplaced(s, i, f) : i \in 1..Len(s.deck), f \in ForeignCards}
    \cup UNION {{HandCardReplaced(s, q, c, f) : c \in BagToSet(s.players[q].hand),
                                                  f \in ForeignCards}
                   : q \in OtherSeats(seat)}
    \cup UNION {{HandCardForDeck(s, q, c, i) : c \in BagToSet(s.players[q].hand),
                                                 i \in 1..Len(s.deck)}
                   : q \in OtherSeats(seat)}
    \cup UNION {UNION {{HandCardForHand(s, q, c, r, d) :
                            c \in BagToSet(s.players[q].hand),
                            d \in BagToSet(s.players[r].hand)}
                          : r \in OtherSeats(seat) \ {q}}
                   : q \in OtherSeats(seat)}

(* Every hidden card at once: the deck and the other hands hold nothing  *)
(* but copies of the card f.                                             *)
Copies(f, n) == IF n = 0 THEN EmptyBag ELSE [c \in {f} |-> n]

AllHiddenReplaced(s, seat, f) ==
    [s EXCEPT !.deck = [i \in 1..Len(s.deck) |-> f],
              !.players = [p \in Seats |->
                              IF p = seat THEN s.players[p]
                              ELSE [s.players[p] EXCEPT
                                        !.hand = Copies(f, BagCardinality(@))]]]

SameViewAs(s, seat, view) ==
    /\ \A v \in HiddenVariants(s, seat) : buildPlayerView(v, seat) = view
    /\ \A f \in ForeignCards : buildPlayerView(AllHiddenReplaced(s, seat, f), seat) = view

SameViewFor(s, seat) == SameViewAs(s, seat, buildPlayerView(s, seat))

(* C36: View confidentiality.  For every player p, every state that        *)
(* differs from the current one only in the contents (not the sizes) of    *)
(* the other players' hands and in the order and contents of the deck      *)
(* (same size) gives p the same view from buildPlayerView.                 *)
ViewConfidentiality ==
    Awaiting => \A seat \in Seats : SameViewFor(GS(0), seat)

(* A view taken in the middle of a resolution while another player holds  *)
(* cards and the deck has some: a variant has another hand and another    *)
(* deck, the view is the same and shows the hand and the deck as counts.  *)
ViewHidesHandAndDeck ==
    /\ Awaiting
    /\ HasCurrent
    /\ pendingAction # NoPending
    /\ \E seat \in Seats :
          /\ \E q \in OtherSeats(seat) :
                buildPlayerView(GS(0), seat).players[q].handCount
                    = BagCardinality(players[q].hand)
                /\ BagCardinality(players[q].hand) > 0
          /\ buildPlayerView(GS(0), seat).deckCount = Len(deck)
          /\ \E v \in HiddenVariants(GS(0), seat) :
                /\ v.deck # deck
                /\ v.players # players
                /\ buildPlayerView(v, seat) = buildPlayerView(GS(0), seat)

(* The seats in their original order, the eliminated ones left out. *)
LivingSeatsInOrder == SelectSeq(<<0, 1, 2>>, LAMBDA p : ~players[p].eliminated)

(* C37: in every reachable state playerOrder contains exactly the seats of *)
(* the non-eliminated players, each once, in their original relative       *)
(* order.                                                                  *)
PlayerOrderIsLivingSeats == playerOrder = LivingSeatsInOrder

(* The action just handled eliminated seat 1 of a game of three: the       *)
(* order is left with seats 0 and 2.                                       *)
MiddleSeatEliminated ==
    /\ \E i \in 1..Len(last.ev) : last.ev[i].k = "eliminated" /\ last.ev[i].seat = 1
    /\ playerOrder = <<0, 2>>
    /\ players[1].eliminated

EliminatedHandsEmpty ==
    \A p \in Seats : players[p].eliminated => players[p].hand = EmptyBag

AwaitedSeatLiving ==
    pendingAction # NoPending => ~players[AwaitedSeat(pendingAction)].eliminated

(* C38: in every reachable state every eliminated player has an empty hand *)
(* (an eliminated player never draws or collects a card afterwards), and   *)
(* the seat awaited by any pendingAction belongs to a non-eliminated       *)
(* player.                                                                 *)
EliminatedStayOut == EliminatedHandsEmpty /\ AwaitedSeatLiving

(* C38, amended: every eliminated player has an empty hand in every        *)
(* reachable state, and while winner is unset the seat awaited by the      *)
(* pendingAction belongs to a non-eliminated player.                       *)
EliminatedStayOutWhileOn ==
    /\ EliminatedHandsEmpty
    /\ winner = "null" => AwaitedSeatLiving

(* The action just handled eliminated a player in the middle of a          *)
(* resolution that goes on: the hand is gone and a living seat is awaited. *)
EliminatedMidResolution ==
    /\ winner = "null"
    /\ pendingAction # NoPending
    /\ ~players[AwaitedSeat(pendingAction)].eliminated
    /\ \E i \in 1..Len(last.ev) :
          /\ last.ev[i].k = "eliminated"
          /\ players[last.ev[i].seat].hand = EmptyBag

(* The first living seat after seat c going round the table, c itself *)
(* when no other is left.                                              *)
NearestLivingSuccessor(c, ps) ==
    IF ~ps[(c + 1) % 3].eliminated THEN (c + 1) % 3
    ELSE IF ~ps[(c + 2) % 3].eliminated THEN (c + 2) % 3
    ELSE c

TurnEnded(ev) == TurnStarts(ev) # <<>>

(* C39: Active-seat stability.  While the game is on playerOrder has a     *)
(* seat at currentPlayerIndex; an action that ends no turn leaves that     *)
(* seat the active one as long as its player lives (an elimination never   *)
(* makes a different living seat active mid-turn), and an action that ends *)
(* a turn hands it to the nearest living successor of the seat whose turn  *)
(* ended, so that no living player's turn is skipped.                      *)
ActiveSeatStability ==
    /\ [](winner = "null" => HasCurrent)
    /\ [][(winner = "null" /\ winner' = "null" /\ HasCurrent /\ HasCurrent')
             => /\ (~TurnEnded(last'.ev) /\ ~players'[CurrentSeat].eliminated)
                      => CurrentSeat' = CurrentSeat
                /\ TurnEnded(last'.ev)
                      => CurrentSeat' = NearestLivingSuccessor(CurrentSeat, players')]_vars

(* The players that computeAvailableActions offers something to. *)
Actors == {p \in Seats : computeAvailableActions(GS(0), p) # <<>>}

====
